---- MODULE Spec2Model ----
(***************************************************************************)
(* A model of the Gaussian-splat streaming pipeline:                       *)
(*   - PlyStreamParser / StreamingGaussianSplatParser / StreamLoader       *)
(*     (the chunked binary decoder and the loader that drives it),         *)
(*   - GSplatStreamPrimitive (packed buffers, pending set, flush policy),  *)
(*   - the depth-order sort worker (counting sort and trim count).         *)
(* Bytes and characters are naturals (byte values, Unicode code points);   *)
(* a JavaScript string is the sequence of its code points.                 *)
(***************************************************************************)
EXTENDS Integers, Sequences, FiniteSets, TLC

\* F applied to the value of e, e being evaluated once (a `const` binding)
With(e, F(_)) == CHOOSE r \in {F(v) : v \in {e}} : TRUE

(***************************************************************************)
(* JavaScript values that have no TLA+ counterpart.                        *)
(***************************************************************************)
\* the token `undefined` where a string is expected (e.g. toks[2] past the end)
UNDEF == <<-1>>
\* the number NaN (parseInt of a missing or non-numeric token)
NaN == -(2147483647)

(***************************************************************************)
(* String literals of PlyStreamParser.js, as code-point sequences.         *)
(***************************************************************************)
\* keywords and prefixes the header parser looks for
Text ==
  [end_header |-> <<101, 110, 100, 95, 104, 101, 97, 100, 101, 114, 10>>,   \* 'end_header\n'
   format_ |-> <<102, 111, 114, 109, 97, 116, 32>>,   \* 'format '
   comment_TextureFile_ |-> <<99, 111, 109, 109, 101, 110, 116, 32, 84, 101, 120, 116, 117, 114, 101, 70, 105, 108, 101, 32>>,   \* 'comment TextureFile '
   element_ |-> <<101, 108, 101, 109, 101, 110, 116, 32>>,   \* 'element '
   property_ |-> <<112, 114, 111, 112, 101, 114, 116, 121, 32>>,   \* 'property '
   vertex |-> <<118, 101, 114, 116, 101, 120>>,   \* 'vertex'
   face |-> <<102, 97, 99, 101>>,   \* 'face'
   list |-> <<108, 105, 115, 116>>,   \* 'list'
   binary_little_endian |-> <<98, 105, 110, 97, 114, 121, 95, 108, 105, 116, 116, 108, 101, 95, 101, 110, 100, 105, 97, 110>>,   \* 'binary_little_endian'
   ascii |-> <<97, 115, 99, 105, 105>>,   \* 'ascii'
   f_rest_ |-> <<102, 95, 114, 101, 115, 116, 95>>]   \* 'f_rest_'

\* property names the record decoder looks up
Names ==
  [x |-> <<120>>,   \* 'x'
   y |-> <<121>>,   \* 'y'
   z |-> <<122>>,   \* 'z'
   scale_0 |-> <<115, 99, 97, 108, 101, 95, 48>>,   \* 'scale_0'
   scale_1 |-> <<115, 99, 97, 108, 101, 95, 49>>,   \* 'scale_1'
   scale_2 |-> <<115, 99, 97, 108, 101, 95, 50>>,   \* 'scale_2'
   opacity |-> <<111, 112, 97, 99, 105, 116, 121>>,   \* 'opacity'
   rot_0 |-> <<114, 111, 116, 95, 48>>,   \* 'rot_0'
   rot_1 |-> <<114, 111, 116, 95, 49>>,   \* 'rot_1'
   rot_2 |-> <<114, 111, 116, 95, 50>>,   \* 'rot_2'
   rot_3 |-> <<114, 111, 116, 95, 51>>,   \* 'rot_3'
   red |-> <<114, 101, 100>>,   \* 'red'
   green |-> <<103, 114, 101, 101, 110>>,   \* 'green'
   blue |-> <<98, 108, 117, 101>>,   \* 'blue'
   f_dc_0 |-> <<102, 95, 100, 99, 95, 48>>,   \* 'f_dc_0'
   f_dc_1 |-> <<102, 95, 100, 99, 95, 49>>,   \* 'f_dc_1'
   f_dc_2 |-> <<102, 95, 100, 99, 95, 50>>]   \* 'f_dc_2'

\* PLY scalar type names
Types ==
  [char |-> <<99, 104, 97, 114>>,   \* 'char'
   uchar |-> <<117, 99, 104, 97, 114>>,   \* 'uchar'
   uint8 |-> <<117, 105, 110, 116, 56>>,   \* 'uint8'
   int8 |-> <<105, 110, 116, 56>>,   \* 'int8'
   short |-> <<115, 104, 111, 114, 116>>,   \* 'short'
   ushort |-> <<117, 115, 104, 111, 114, 116>>,   \* 'ushort'
   int16 |-> <<105, 110, 116, 49, 54>>,   \* 'int16'
   uint16 |-> <<117, 105, 110, 116, 49, 54>>,   \* 'uint16'
   int |-> <<105, 110, 116>>,   \* 'int'
   uint |-> <<117, 105, 110, 116>>,   \* 'uint'
   int32 |-> <<105, 110, 116, 51, 50>>,   \* 'int32'
   uint32 |-> <<117, 105, 110, 116, 51, 50>>,   \* 'uint32'
   float |-> <<102, 108, 111, 97, 116>>,   \* 'float'
   float32 |-> <<102, 108, 111, 97, 116, 51, 50>>,   \* 'float32'
   double |-> <<100, 111, 117, 98, 108, 101>>,   \* 'double'
   float64 |-> <<102, 108, 111, 97, 116, 54, 52>>]   \* 'float64'

\* const splatProperties
splatProperties == <<Names.x, Names.y, Names.z, Names.scale_0, Names.scale_1, Names.scale_2, Names.opacity, Names.rot_0, Names.rot_1, Names.rot_2, Names.rot_3>>
\* const splatColorProperties
splatColorProperties == <<Names.red, Names.green, Names.blue, Names.f_dc_0, Names.f_dc_1, Names.f_dc_2>>
\* const PlyMode
PlyMode == [Splat |-> 0, PointCloud |-> 1, Mesh |-> 2]

(***************************************************************************)
(* JavaScript built-ins used by the decoder.                               *)
(***************************************************************************)
\* U+FFFD, the replacement character TextDecoder emits for malformed input
ReplacementChar == 65533

IsCont(b) == b >= 128 /\ b <= 191

\* lower and upper bound of the second byte of a multi-byte sequence led by b
SecondLo(b) == IF b = 224 THEN 160 ELSE IF b = 240 THEN 144 ELSE 128
SecondHi(b) == IF b = 237 THEN 159 ELSE IF b = 244 THEN 143 ELSE 191

\* One step of the UTF-8 decoder at byte i (1-based): <<code point, bytes consumed>>.
\* A malformed or truncated sequence yields U+FFFD and consumes its maximal
\* valid prefix (WHATWG "utf-8 decoder", non-streaming, non-fatal).
Utf8Step(bytes, i) ==
  LET b == bytes[i]
      n == Len(bytes)
      need == IF b >= 194 /\ b <= 223 THEN 1
              ELSE IF b >= 224 /\ b <= 239 THEN 2
              ELSE IF b >= 240 /\ b <= 244 THEN 3
              ELSE 0
      ok2 == i + 1 <= n /\ bytes[i + 1] >= SecondLo(b) /\ bytes[i + 1] <= SecondHi(b)
      ok3 == ok2 /\ i + 2 <= n /\ IsCont(bytes[i + 2])
      ok4 == ok3 /\ i + 3 <= n /\ IsCont(bytes[i + 3])
  IN  IF b < 128 THEN <<b, 1>>
      ELSE IF need = 0 THEN <<ReplacementChar, 1>>
      ELSE IF need = 1 THEN
        IF ok2 THEN <<(b - 192) * 64 + (bytes[i + 1] - 128), 2>>
        ELSE <<ReplacementChar, 1>>
      ELSE IF need = 2 THEN
        IF ok3 THEN <<(b - 224) * 4096 + (bytes[i + 1] - 128) * 64 + (bytes[i + 2] - 128), 3>>
        ELSE IF ok2 THEN <<ReplacementChar, 2>>
        ELSE <<ReplacementChar, 1>>
      ELSE
        IF ok4 THEN <<(b - 240) * 262144 + (bytes[i + 1] - 128) * 4096
                       + (bytes[i + 2] - 128) * 64 + (bytes[i + 3] - 128), 4>>
        ELSE IF ok3 THEN <<ReplacementChar, 3>>
        ELSE IF ok2 THEN <<ReplacementChar, 2>>
        ELSE <<ReplacementChar, 1>>

\* Whether byte i is swallowed as a continuation byte of a sequence led by one
\* of the three bytes before it (never reaching back before byte `first`).
\* A lead byte is never a continuation byte, so the lead is unambiguous.
Utf8Consumed(bytes, first, i) ==
  \E k \in 1..3 :
    /\ i - k >= first
    /\ LET b == bytes[i - k]
           need == IF b >= 194 /\ b <= 223 THEN 1
                   ELSE IF b >= 224 /\ b <= 239 THEN 2
                   ELSE IF b >= 240 /\ b <= 244 THEN 3
                   ELSE 0
       IN  /\ need >= k
           /\ bytes[i - k + 1] >= SecondLo(b) /\ bytes[i - k + 1] <= SecondHi(b)
           /\ \A m \in 2..k : IsCont(bytes[i - k + m])

\* the code points decoded from bytes[lo..hi], by halving (the decoder itself
\* is a left-to-right loop: the result is the same, the evaluation is shallow)
RECURSIVE Utf8Range(_, _, _, _)
Utf8Range(bytes, first, lo, hi) ==
  IF lo > hi THEN << >>
  ELSE IF lo = hi THEN
    (IF bytes[lo] < 128 THEN <<bytes[lo]>>
     ELSE IF Utf8Consumed(bytes, first, lo) THEN << >>
     ELSE <<Utf8Step(bytes, lo)[1]>>)
  ELSE With((lo + hi) \div 2, LAMBDA mid :
         Utf8Range(bytes, first, lo, mid) \o Utf8Range(bytes, first, mid + 1, hi))

\* new TextDecoder('utf-8').decode(bytes): a leading byte-order mark is
\* dropped; bytes below 128 decode to themselves
TextDecode(buffer) ==
  With(buffer, LAMBDA bytes :
    IF \A i \in 1..Len(bytes) : bytes[i] < 128 THEN bytes
    ELSE IF Len(bytes) >= 3 /\ bytes[1] = 239 /\ bytes[2] = 187 /\ bytes[3] = 191
    THEN Utf8Range(bytes, 4, 4, Len(bytes))
    ELSE Utf8Range(bytes, 1, 1, Len(bytes)))

StartsAt(text, pat, i) ==
  /\ i + Len(pat) <= Len(text)
  /\ \A k \in 1..Len(pat) : text[i + k] = pat[k]

\* the least element of a non-empty set of integers
MinOf(set) == With(set, LAMBDA S : CHOOSE i \in S : \A j \in S : i <= j)
MaxOf(set) == With(set, LAMBDA S : CHOOSE i \in S : \A j \in S : i >= j)

\* String.prototype.indexOf: 0-based index of the first occurrence, or -1
IndexOf(string, pat) ==
  With(string, LAMBDA text :
  With({i \in 0..(Len(text) - Len(pat)) : StartsAt(text, pat, i)}, LAMBDA S :
    IF S = {} THEN -1 ELSE MinOf(S)))

\* String.prototype.startsWith
StartsWith(s, p) == StartsAt(s, p, 0)

\* the characters matched by \s in a JavaScript regular expression
IsSpace(c) ==
  \/ c \in {9, 10, 11, 12, 13, 32, 160, 5760, 8232, 8233, 8239, 8287, 12288, 65279}
  \/ (c >= 8192 /\ c <= 8202)

\* the elements of a finite set of integers in ascending order
Ascending(set) ==
  With(set, LAMBDA S :
    [k \in 1..Cardinality(S) |-> CHOOSE i \in S : Cardinality({j \in S : j <= i}) = k])

\* String.prototype.split for a separator whose matches are the intervals
\* starts[k]..ends[k] (1-based, ascending, disjoint): the pieces between them
SplitBetween(s, startSeq, ends) ==
  With(startSeq, LAMBDA starts :
    [k \in 1..(Len(starts) + 1) |->
       SubSeq(s, IF k = 1 THEN 1 ELSE ends[k - 1] + 1,
                 IF k = Len(starts) + 1 THEN Len(s) ELSE starts[k] - 1)])

\* text.split(/\r?\n/)
SplitLines(string) ==
  With(string, LAMBDA text :
  With(Ascending({i \in 1..Len(text) : text[i] = 10}), LAMBDA nl :
    SplitBetween(text,
                 [k \in 1..Len(nl) |->
                    IF nl[k] > 1 /\ text[nl[k] - 1] = 13 THEN nl[k] - 1 ELSE nl[k]],
                 nl)))

\* s.split(/\s+/)
SplitWS(string) ==
  With(string, LAMBDA s :
  With(Ascending({i \in 1..Len(s) : IsSpace(s[i]) /\ (i = Len(s) \/ ~IsSpace(s[i + 1]))}),
       LAMBDA en :
    SplitBetween(s,
                 Ascending({i \in 1..Len(s) : IsSpace(s[i]) /\ (i = 1 \/ ~IsSpace(s[i - 1]))}),
                 en)))

\* toks[k] with a 0-based index k: undefined past the end
Tok(toks, k) == IF k + 1 <= Len(toks) THEN toks[k + 1] ELSE UNDEF

RECURSIVE TrimLeft(_)
TrimLeft(s) == IF Len(s) > 0 /\ IsSpace(s[1]) THEN TrimLeft(Tail(s)) ELSE s


\* String.prototype.trim: the part between the first and the last character
\* that is not white space
Trim(string) ==
  With(string, LAMBDA s :
  With({i \in 1..Len(s) : ~IsSpace(s[i])}, LAMBDA keep :
    IF keep = {} THEN << >> ELSE SubSeq(s, MinOf(keep), MaxOf(keep))))

\* value of the character c as a digit of the given radix, or -1
DigitValue(c, radix) ==
  LET v == IF c >= 48 /\ c <= 57 THEN c - 48
           ELSE IF c >= 97 /\ c <= 122 THEN c - 97 + 10
           ELSE IF c >= 65 /\ c <= 90 THEN c - 65 + 10
           ELSE -1
  IN  IF v >= 0 /\ v < radix THEN v ELSE -1

RECURSIVE ParseDigits(_, _, _, _, _)
ParseDigits(s, i, radix, acc, any) ==
  IF i > Len(s) \/ DigitValue(s[i], radix) < 0
  THEN IF any THEN acc ELSE NaN
  ELSE ParseDigits(s, i + 1, radix, acc * radix + DigitValue(s[i], radix), TRUE)

\* parseInt(tok): leading white space, an optional sign, an optional 0x
\* prefix, then the longest run of digits; NaN when there is none
ParseInt(tok) ==
  IF tok = UNDEF THEN NaN
  ELSE With(TrimLeft(tok), LAMBDA s :
       With(IF Len(s) > 0 /\ s[1] \in {43, 45} THEN Tail(s) ELSE s, LAMBDA t :
       With(IF Len(t) >= 2 /\ t[1] = 48 /\ t[2] \in {120, 88}
            THEN ParseDigits(t, 3, 16, 0, FALSE)
            ELSE ParseDigits(t, 1, 10, 0, FALSE), LAMBDA m :
         IF m = NaN THEN NaN ELSE IF Len(s) > 0 /\ s[1] = 45 THEN -m ELSE m)))

(***************************************************************************)
(* PlyUtils: byteSizeOfType, readByType.                                   *)
(***************************************************************************)
byteSizeOfType(t) ==
  IF t \in {Types.char, Types.uchar, Types.uint8, Types.int8} THEN 1
  ELSE IF t \in {Types.short, Types.ushort, Types.int16, Types.uint16} THEN 2
  ELSE IF t \in {Types.int, Types.uint, Types.int32, Types.uint32, Types.float, Types.float32} THEN 4
  ELSE IF t \in {Types.double, Types.float64} THEN 8
  ELSE 4

\* DataView getters with littleEndian = true.  One- and two-byte integers are
\* numbers; a four- or eight-byte value is its bit pattern, written as its
\* bytes from the most significant to the least significant (a 32-bit pattern
\* does not fit the checker's integers).  The float getters are one-to-one on
\* bit patterns except for NaN payloads, which none of the inputs contains.
readByType(view, offset, type) ==
  LET b(k) == view[offset + k + 1]
  IN  IF type \in {Types.char, Types.int8} THEN
        (IF b(0) >= 128 THEN b(0) - 256 ELSE b(0))
      ELSE IF type \in {Types.uchar, Types.uint8} THEN b(0)
      ELSE IF type \in {Types.short, Types.int16} THEN
        (IF b(1) >= 128 THEN b(0) + 256 * b(1) - 65536 ELSE b(0) + 256 * b(1))
      ELSE IF type \in {Types.ushort, Types.uint16} THEN b(0) + 256 * b(1)
      ELSE IF type \in {Types.int, Types.int32, Types.uint, Types.uint32} THEN
        <<b(3), b(2), b(1), b(0)>>
      ELSE IF type \in {Types.double, Types.float64} THEN
        <<b(7), b(6), b(5), b(4), b(3), b(2), b(1), b(0)>>
      ELSE <<b(3), b(2), b(1), b(0)>>

\* float32 values by bit pattern, most significant byte first (what
\* DataView.getFloat32 returns is kept as the 32 bits it read)
F32 ==
  [zero |-> <<0, 0, 0, 0>>, v1 |-> <<63, 128, 0, 0>>, v2 |-> <<64, 0, 0, 0>>,
   v3_5 |-> <<64, 96, 0, 0>>, v4 |-> <<64, 128, 0, 0>>, v5 |-> <<64, 160, 0, 0>>,
   v6 |-> <<64, 192, 0, 0>>, v7 |-> <<64, 224, 0, 0>>, v8 |-> <<65, 0, 0, 0>>,
   v9 |-> <<65, 16, 0, 0>>, m1 |-> <<191, 128, 0, 0>>,
   inf |-> <<127, 128, 0, 0>>, minf |-> <<255, 128, 0, 0>>]

(***************************************************************************)
(* PlyStreamParser._parseHeader                                            *)
(***************************************************************************)
\* the loop variables of _parseHeader before the first line
HeaderScanInit ==
  [format |-> << >>, vertexCount |-> 0, faceCount |-> 0, properties |-> << >>,
   faceProperties |-> << >>, textureFiles |-> << >>,
   inVertexElement |-> FALSE, inFaceElement |-> FALSE]

\* the body of `for (const line of lines)`
HeaderLine(a, line) ==
  With(SplitWS(line), LAMBDA toks :
    IF StartsWith(line, Text.format_) THEN
      [a EXCEPT !.format = Tok(toks, 1)]
    ELSE IF StartsWith(line, Text.comment_TextureFile_) THEN
      With(Trim(SubSeq(line, Len(Text.comment_TextureFile_) + 1, Len(line))),
           LAMBDA texturePath :
        IF Len(texturePath) > 0
        THEN [a EXCEPT !.textureFiles = Append(@, texturePath)]
        ELSE a)
    ELSE IF StartsWith(line, Text.element_) THEN
      LET isV == Tok(toks, 1) = Text.vertex
          isF == Tok(toks, 1) = Text.face
      IN  [a EXCEPT !.inVertexElement = isV,
                    !.inFaceElement = isF,
                    !.vertexCount = IF isV THEN ParseInt(Tok(toks, 2)) ELSE @,
                    !.faceCount = IF isF THEN ParseInt(Tok(toks, 2)) ELSE @]
    ELSE IF a.inVertexElement /\ StartsWith(line, Text.property_) THEN
      [a EXCEPT !.properties = Append(@, [name |-> Tok(toks, 2), type |-> Tok(toks, 1)])]
    ELSE IF a.inFaceElement /\ StartsWith(line, Text.property_) THEN
      IF Tok(toks, 1) = Text.list
      THEN [a EXCEPT !.faceProperties =
              Append(@, [name |-> Tok(toks, 4),
                         type |-> Text.list \o <<32>> \o Tok(toks, 2) \o <<32>> \o Tok(toks, 3)])]
      ELSE [a EXCEPT !.faceProperties =
              Append(@, [name |-> Tok(toks, 2), type |-> Tok(toks, 1)])]
    ELSE a)

RECURSIVE HeaderScan(_, _, _)
HeaderScan(a, lines, i) ==
  IF i > Len(lines) THEN a
  ELSE With(HeaderLine(a, lines[i]), LAMBDA b : HeaderScan(b, lines, i + 1))

\* number of the properties whose name is one of `names`
CountNamed(properties, names) ==
  Cardinality({i \in 1..Len(properties) :
                 \E k \in 1..Len(names) : properties[i].name = names[k]})

\* the mode chosen at the end of _parseHeader
HeaderMode(faceCount, properties) ==
  IF faceCount # NaN /\ faceCount > 0 THEN PlyMode.Mesh
  ELSE IF CountNamed(properties, splatProperties) = Len(splatProperties)
          /\ CountNamed(properties, splatColorProperties) = 3
       THEN PlyMode.Splat
  ELSE PlyMode.PointCloud

\* a format check that accepts every format token
FormatSupported_Any(format) == TRUE

\* the format check of _parseHeader
FormatSupported(format) == format = Text.binary_little_endian \/ format = Text.ascii

\* _parseHeader(buffer): [thrown, header]
ParseHeader(buffer) ==
  With(TextDecode(buffer), LAMBDA ascii :
  With(IndexOf(ascii, Text.end_header), LAMBDA headerEnd :
    IF headerEnd < 0 THEN [thrown |-> "InvalidHeader", header |-> << >>]
    ELSE
      With(SubSeq(ascii, 1, headerEnd + Len(Text.end_header)), LAMBDA headerText :
      With(SplitLines(headerText), LAMBDA lines :
      With(HeaderScan(HeaderScanInit, lines, 1), LAMBDA a :
        IF ~FormatSupported(a.format)
        THEN [thrown |-> "UnsupportedFormat", header |-> << >>]
        ELSE [thrown |-> "none",
              header |-> <<[format |-> a.format,
                            vertexCount |-> a.vertexCount,
                            faceCount |-> a.faceCount,
                            properties |-> a.properties,
                            faceProperties |-> a.faceProperties,
                            textureFiles |-> a.textureFiles,
                            headerByteLength |-> Len(headerText),
                            mode |-> HeaderMode(a.faceCount, a.properties)]>>])))))

(***************************************************************************)
(* The decoder: PlyStreamParser driven by StreamingGaussianSplatParser and *)
(* StreamLoader.  Its state is one record `dec`; every method is an        *)
(* operator from the record before the call to the record after it.  A     *)
(* thrown exception is the field `thrown`: the assignments made before the *)
(* throw stay, the rest of the call is skipped.                            *)
(***************************************************************************)
VARIABLES
  payload,   \* which stream the transport delivers (a key of Payloads)
  dec,       \* decoder and loader state, see DecInit
  wk,        \* the sort worker's script variables and its message queues
  prim,      \* the GSplatStreamPrimitive object, see PrimInit
  env        \* the clock and the numbers of calls made, see EnvInit

\* an optional value: << >> is null / undefined, <<v>> is v
Some(v) == <<v>>
None == << >>

Max(a, b) == IF a >= b THEN a ELSE b
Min(a, b) == IF a <= b THEN a ELSE b

\* PlyStreamParser constructor (batchSize from StreamingGaussianSplatParser),
\* StreamingGaussianSplatParser constructor, and the locals of loadStream
DecInit(batchSize) ==
  [ \* PlyStreamParser
    batchSize |-> batchSize,
    header |-> None,
    headerBuffer |-> << >>,        \* _headerBuffer[0 .. _headerLength)
    headerBufferLength |-> 4096,   \* _headerBuffer.length
    headerLength |-> 0,
    headerParsed |-> FALSE,
    dataBuffer |-> << >>,          \* _dataBuffer[0 .. _dataOffset)
    dataBufferLength |-> -1,       \* _dataBuffer.length, -1 while _dataBuffer is null
    dataOffset |-> 0,
    processedVertices |-> 0,
    vertexStride |-> 0,
    propOffsets |-> << >>,
    properties |-> << >>,
    cancelled |-> FALSE,
    timers |-> 0,                  \* setTimeout continuations not yet run
    \* StreamingGaussianSplatParser
    sgsHeaderParsed |-> FALSE,
    sgsCancelled |-> FALSE,
    \* the primitive as the decoder sees it: the calls made on it
    headerCalls |-> << >>,         \* arguments of the header-parsed callback
    initCalls |-> << >>,           \* arguments of primitive.initCount
    splatCalls |-> << >>,          \* arguments of primitive.setSplatData
    \* StreamLoader.loadStream
    pc |-> "reading",              \* reading | complete | failed | aborted
    aborted |-> FALSE,
    parserResolved |-> FALSE,
    receivedLength |-> 0,
    promise |-> "pending",         \* pending | resolved | rejected
    onErrorCalls |-> 0,
    onCompleteCalls |-> 0,
    \* the exception the running call has thrown, "none" if it has not
    thrown |-> "none",
    uncaught |-> 0 ]               \* exceptions thrown by timer callbacks

\* resolve(...) / reject(...): only the first settlement of a promise counts
Resolve(d) == [d EXCEPT !.promise = IF @ = "pending" THEN "resolved" ELSE @]
Reject(d) == [d EXCEPT !.promise = IF @ = "pending" THEN "rejected" ELSE @]

\* StreamingGaussianSplatParser.verification (the primitive is always set)
Verification(d) == d.sgsHeaderParsed

\* the callback loadStream hands to initStream
LoaderOnHeaderParsed(state) ==
  With(state, LAMBDA d :
    IF ~d.parserResolved /\ ~d.aborted /\ Verification(d)
    THEN Resolve([d EXCEPT !.parserResolved = TRUE])
    ELSE d)

\* the header callback StreamingGaussianSplatParser gives to PlyStreamParser;
\* primitive.initCount throws for a count <= 0
SgsOnHeaderParsed(d, header) ==
  IF header.vertexCount # NaN /\ header.vertexCount <= 0
  THEN [d EXCEPT !.headerCalls = Append(@, header), !.thrown = "DeveloperError"]
  ELSE LoaderOnHeaderParsed([d EXCEPT !.headerCalls = Append(@, header),
                                      !.initCalls = Append(@, header.vertexCount),
                                      !.sgsHeaderParsed = TRUE])

\* the record callback: primitive.setSplatData(index, splatData)
SgsOnSplatParsed(d, splatData, index) ==
  [d EXCEPT !.splatCalls = Append(@, <<splatData, index>>)]

RECURSIVE PropOffsetsFrom(_, _, _, _)
PropOffsetsFrom(properties, i, stride, acc) ==
  IF i > Len(properties) THEN <<acc, stride>>
  ELSE PropOffsetsFrom(properties, i + 1,
                       stride + byteSizeOfType(properties[i].type), Append(acc, stride))

\* PlyStreamParser._initializeDataParsing
InitializeDataParsing(d, header) ==
  With(PropOffsetsFrom(header.properties, 1, 0, << >>), LAMBDA po :
  With(IF header.vertexCount = NaN THEN NaN ELSE header.vertexCount * po[2],
       LAMBDA estimatedSize :
    IF estimatedSize # NaN /\ estimatedSize < 0
    THEN [d EXCEPT !.properties = header.properties,
                   !.propOffsets = po[1],
                   !.vertexStride = po[2],
                   !.thrown = "RangeError"]    \* new Uint8Array(negative)
    ELSE [d EXCEPT !.properties = header.properties,
                   !.propOffsets = po[1],
                   !.vertexStride = po[2],
                   !.dataBufferLength =
                      IF estimatedSize = NaN THEN 0
                      ELSE Min(estimatedSize, 1024 * 1024 * 10),
                   !.dataBuffer = << >>,
                   !.dataOffset = 0,
                   !.processedVertices = 0]))

\* this._properties.findIndex((p) => p.name === n), 0-based, -1 if absent
propIndex(properties, n) ==
  With({i \in 1..Len(properties) : properties[i].name = n}, LAMBDA S :
    IF S = {} THEN -1 ELSE MinOf(S) - 1)

has(properties, n) == propIndex(properties, n) >= 0

\* readByType(payload, vOffset + _propOffsets[i], _properties[i].type), i 0-based
ReadProp(d, vOffset, i) ==
  readByType(d.dataBuffer, vOffset + d.propOffsets[i + 1], d.properties[i + 1].type)

\* indices (0-based, ascending) of the properties named f_rest_*
RestIndices(properties) ==
  LET S == {i \in 1..Len(properties) : StartsWith(properties[i].name, Text.f_rest_)}
      RECURSIVE Asc(_, _)
      Asc(i, acc) == IF i > Len(properties) THEN acc
                     ELSE Asc(i + 1, IF i \in S THEN Append(acc, i - 1) ELSE acc)
  IN  Asc(1, << >>)

\* Math.floor(Math.sqrt(n)) for a natural n
FloorSqrt(n) == CHOOSE r \in 0..n : r * r <= n /\ (r + 1) * (r + 1) > n

\* splatData.sh for one record (f_dc_0..2 present; f_rest_* count a multiple of 3)
ReadSH(d, vOffset) ==
  With(RestIndices(d.properties), LAMBDA rest :
    LET coeffsPerColor == 1 + Len(rest) \div 3
        dc(k) == ReadProp(d, vOffset,
                          propIndex(d.properties,
                                    <<Names.f_dc_0, Names.f_dc_1, Names.f_dc_2>>[k + 1]))
        \* coeffs[j] after the assignments of lines 298-315
        coeff(j) ==
          LET c == j \div coeffsPerColor     \* 0 red, 1 green, 2 blue
              q == j % coeffsPerColor
          IN  IF q = 0 THEN dc(c)
              ELSE ReadProp(d, vOffset, rest[3 * (q - 1) + c + 1])
    IN  [order |-> FloorSqrt(coeffsPerColor),
         coeffs |-> [j \in 1..(coeffsPerColor * 3) |-> coeff(j - 1)]])

\* a property read through propIndex(name) that is -1 dereferences undefined
MissingCompanion(props) ==
  \/ has(props, Names.scale_0) /\ ~(has(props, Names.scale_1) /\ has(props, Names.scale_2))
  \/ has(props, Names.rot_0) /\ ~(has(props, Names.rot_1) /\ has(props, Names.rot_2) /\ has(props, Names.rot_3))
  \/ /\ has(props, Names.f_dc_0) /\ has(props, Names.f_dc_1) /\ has(props, Names.f_dc_2)
     /\ Len(RestIndices(props)) % 3 # 0

\* the splatData object built for the record at byte offset vOffset
ReadSplat(d, vOffset) ==
  LET props == d.properties
      rd(n) == ReadProp(d, vOffset, propIndex(props, n))
  IN  [position |-> <<rd(Names.x), rd(Names.y), rd(Names.z)>>,
       scale |-> IF has(props, Names.scale_0)
                 THEN Some(<<rd(Names.scale_0), rd(Names.scale_1), rd(Names.scale_2)>>) ELSE None,
       rotation |-> IF has(props, Names.rot_0)
                    THEN Some(<<rd(Names.rot_1), rd(Names.rot_2), rd(Names.rot_3), rd(Names.rot_0)>>) ELSE None,
       opacity |-> IF has(props, Names.opacity) THEN Some(rd(Names.opacity)) ELSE None,
       sh |-> IF has(props, Names.f_dc_0) /\ has(props, Names.f_dc_1) /\ has(props, Names.f_dc_2)
              THEN Some(ReadSH(d, vOffset)) ELSE None]

\* `a < b` on JavaScript numbers: false when either is NaN
JsLess(a, b) == a # NaN /\ b # NaN /\ a < b

\* a loop guard that does not look at the cancellation flag
RecordAvailable_IgnoresCancel(d) ==
  /\ d.processedVertices # NaN /\ d.header[1].vertexCount # NaN
  /\ d.processedVertices < d.header[1].vertexCount
  /\ ~(d.processedVertices * d.vertexStride + d.vertexStride > d.dataOffset)

\* a loop guard that does not look at the declared vertex count
RecordAvailable_IgnoresCount(d) ==
  /\ ~d.cancelled
  /\ ~(d.processedVertices * d.vertexStride + d.vertexStride > d.dataOffset)

\* the guard of one iteration of the while loop of _parseVertices: there is a
\* next record and all of its bytes are buffered
RecordAvailable(d) ==
  /\ JsLess(d.processedVertices, d.header[1].vertexCount)
  /\ ~d.cancelled
  /\ ~(d.processedVertices * d.vertexStride + d.vertexStride > d.dataOffset)

\* whether the continuation is scheduled after the record just counted
BatchBoundary(d) == d.processedVertices % d.batchSize = 0

RECURSIVE ParseLoop(_)
ParseLoop(state) ==
  With(state, LAMBDA d :
    IF ~RecordAvailable(d) THEN d
    ELSE IF ~(has(d.properties, Names.x) /\ has(d.properties, Names.y) /\ has(d.properties, Names.z))
      THEN [d EXCEPT !.thrown = "MissingXYZ"]
    ELSE IF MissingCompanion(d.properties) THEN [d EXCEPT !.thrown = "TypeError"]
    ELSE
      With([SgsOnSplatParsed(d, ReadSplat(d, d.processedVertices * d.vertexStride),
                             d.processedVertices)
              EXCEPT !.processedVertices = @ + 1], LAMBDA d2 :
        IF BatchBoundary(d2) THEN [d2 EXCEPT !.timers = @ + 1]
        ELSE ParseLoop(d2)))

\* PlyStreamParser._parseVertices
ParseVertices(state) ==
  With(state, LAMBDA d :
    IF d.header = None \/ d.dataBufferLength < 0 THEN d ELSE ParseLoop(d))

\* PlyStreamParser._processDataChunk
ProcessDataChunk(state, bytes) ==
  With(state, LAMBDA d :
  With(bytes, LAMBDA chunk :
    IF d.header = None \/ d.dataBufferLength < 0 THEN d
    ELSE
      ParseVertices(
        [d EXCEPT !.dataBufferLength =
                     IF d.dataOffset + Len(chunk) > @
                     THEN Max(d.dataOffset + Len(chunk), @ * 2) ELSE @,
                  !.dataBuffer = @ \o chunk,
                  !.dataOffset = @ + Len(chunk)])))

\* a slip: the header end taken as an offset into the chunk
RemainingStartInChunk_NoRebase(headerEndPos, headerLength, chunkLength) ==
  headerEndPos

\* where the data starts in the chunk that completed the header
RemainingStartInChunk(headerEndPos, headerLength, chunkLength) ==
  headerEndPos - (headerLength - chunkLength)

\* PlyStreamParser._processHeaderChunk
ProcessHeaderChunk(d, chunk) ==
  With([d EXCEPT !.headerBufferLength =
                    IF d.headerLength + Len(chunk) > @
                    THEN Max(d.headerLength + Len(chunk), @ * 2) ELSE @,
                 !.headerBuffer = @ \o chunk,
                 !.headerLength = @ + Len(chunk)], LAMBDA d1 :
  With(IndexOf(TextDecode(d1.headerBuffer), Text.end_header), LAMBDA headerEnd :
    IF headerEnd < 0 THEN d1
    ELSE
      With(headerEnd + Len(Text.end_header), LAMBDA headerEndPos :
      With(ParseHeader(SubSeq(d1.headerBuffer, 1, Min(headerEndPos, d1.headerLength))),
           LAMBDA r :
        IF r.thrown # "none" THEN [d1 EXCEPT !.thrown = r.thrown]
        ELSE
          With(InitializeDataParsing([d1 EXCEPT !.header = r.header, !.headerParsed = TRUE],
                                     r.header[1]), LAMBDA d2 :
          With(IF d2.thrown # "none" THEN d2 ELSE SgsOnHeaderParsed(d2, r.header[1]),
               LAMBDA d3 :
          With(RemainingStartInChunk(headerEndPos, d1.headerLength, Len(chunk)),
               LAMBDA rem :
            IF d3.thrown # "none" THEN d3
            ELSE IF rem > 0 /\ rem < Len(chunk)
              THEN ProcessDataChunk(d3, SubSeq(chunk, rem + 1, Len(chunk)))
            ELSE IF rem = 0 THEN ProcessDataChunk(d3, chunk)
            ELSE d3)))))))

\* PlyStreamParser.processChunk
PlyProcessChunk(state, bytes) ==
  With(state, LAMBDA d :
  With(bytes, LAMBDA chunk :
    IF d.cancelled THEN d
    ELSE IF ~d.headerParsed THEN ProcessHeaderChunk(d, chunk)
    ELSE ProcessDataChunk(d, chunk)))

\* StreamingGaussianSplatParser.processChunk
SgsProcessChunk(d, chunk) ==
  IF d.sgsCancelled THEN d ELSE PlyProcessChunk(d, chunk)

\* PlyStreamParser.cancel
PlyCancel(d) == [d EXCEPT !.cancelled = TRUE]

\* StreamingGaussianSplatParser.cancel
SgsCancel(d) == PlyCancel([d EXCEPT !.sgsCancelled = TRUE])

(***************************************************************************)
(* The streams the model delivers: header bytes followed by record bytes.  *)
(***************************************************************************)
\* the streams: header bytes followed by record bytes
Payloads ==
   \* three x,y,z records (1,2,3.5), (4,5,6), (7,8,9), float32 little-endian
   \*   ply
   \*   format binary_little_endian 1.0
   \*   element vertex 3
   \*   property float x
   \*   property float y
   \*   property float z
   \*   end_header
  [xyz |->
    <<112, 108, 121, 10, 102, 111, 114, 109, 97, 116, 32, 98, 105, 110, 97, 114, 121, 95, 108, 105,
    116, 116, 108, 101, 95, 101, 110, 100, 105, 97, 110, 32, 49, 46, 48, 10, 101, 108, 101, 109,
    101, 110, 116, 32, 118, 101, 114, 116, 101, 120, 32, 51, 10, 112, 114, 111, 112, 101, 114, 116,
    121, 32, 102, 108, 111, 97, 116, 32, 120, 10, 112, 114, 111, 112, 101, 114, 116, 121, 32, 102,
    108, 111, 97, 116, 32, 121, 10, 112, 114, 111, 112, 101, 114, 116, 121, 32, 102, 108, 111, 97,
    116, 32, 122, 10, 101, 110, 100, 95, 104, 101, 97, 100, 101, 114, 10>>
    \o
    <<0, 0, 128, 63, 0, 0, 0, 64, 0, 0, 96, 64, 0, 0, 128, 64, 0, 0, 160, 64, 0, 0, 192, 64, 0, 0,
    224, 64, 0, 0, 0, 65, 0, 0, 16, 65>>,
   \* a header with a two-byte character (U+00E9) in a comment
   \*   ply
   \*   format binary_little_endian 1.0
   \*   comment café
   \*   element vertex 1
   \*   property float x
   \*   property float y
   \*   property float z
   \*   end_header
   utf8 |->
    <<112, 108, 121, 10, 102, 111, 114, 109, 97, 116, 32, 98, 105, 110, 97, 114, 121, 95, 108, 105,
    116, 116, 108, 101, 95, 101, 110, 100, 105, 97, 110, 32, 49, 46, 48, 10, 99, 111, 109, 109,
    101, 110, 116, 32, 99, 97, 102, 195, 169, 10, 101, 108, 101, 109, 101, 110, 116, 32, 118, 101,
    114, 116, 101, 120, 32, 49, 10, 112, 114, 111, 112, 101, 114, 116, 121, 32, 102, 108, 111, 97,
    116, 32, 120, 10, 112, 114, 111, 112, 101, 114, 116, 121, 32, 102, 108, 111, 97, 116, 32, 121,
    10, 112, 114, 111, 112, 101, 114, 116, 121, 32, 102, 108, 111, 97, 116, 32, 122, 10, 101, 110,
    100, 95, 104, 101, 97, 100, 101, 114, 10>>
    \o
    <<0, 0, 128, 63, 0, 0, 0, 64, 0, 0, 96, 64>>,
   \* a mesh: two vertices and one face
   \*   ply
   \*   format binary_little_endian 1.0
   \*   element vertex 2
   \*   property float x
   \*   property float y
   \*   property float z
   \*   element face 1
   \*   property list uchar int vertex_indices
   \*   end_header
   mesh |->
    <<112, 108, 121, 10, 102, 111, 114, 109, 97, 116, 32, 98, 105, 110, 97, 114, 121, 95, 108, 105,
    116, 116, 108, 101, 95, 101, 110, 100, 105, 97, 110, 32, 49, 46, 48, 10, 101, 108, 101, 109,
    101, 110, 116, 32, 118, 101, 114, 116, 101, 120, 32, 50, 10, 112, 114, 111, 112, 101, 114, 116,
    121, 32, 102, 108, 111, 97, 116, 32, 120, 10, 112, 114, 111, 112, 101, 114, 116, 121, 32, 102,
    108, 111, 97, 116, 32, 121, 10, 112, 114, 111, 112, 101, 114, 116, 121, 32, 102, 108, 111, 97,
    116, 32, 122, 10, 101, 108, 101, 109, 101, 110, 116, 32, 102, 97, 99, 101, 32, 49, 10, 112,
    114, 111, 112, 101, 114, 116, 121, 32, 108, 105, 115, 116, 32, 117, 99, 104, 97, 114, 32, 105,
    110, 116, 32, 118, 101, 114, 116, 101, 120, 95, 105, 110, 100, 105, 99, 101, 115, 10, 101, 110,
    100, 95, 104, 101, 97, 100, 101, 114, 10>>
    \o
    <<0, 0, 128, 63, 0, 0, 0, 64, 0, 0, 96, 64, 0, 0, 128, 64, 0, 0, 160, 64, 0, 0, 192, 64, 3, 0, 0,
    0, 0, 1, 0, 0, 0, 0, 0, 0, 0>>,
   \* a vertex element without the x property
   \*   ply
   \*   format binary_little_endian 1.0
   \*   element vertex 2
   \*   property float y
   \*   property float z
   \*   end_header
   noX |->
    <<112, 108, 121, 10, 102, 111, 114, 109, 97, 116, 32, 98, 105, 110, 97, 114, 121, 95, 108, 105,
    116, 116, 108, 101, 95, 101, 110, 100, 105, 97, 110, 32, 49, 46, 48, 10, 101, 108, 101, 109,
    101, 110, 116, 32, 118, 101, 114, 116, 101, 120, 32, 50, 10, 112, 114, 111, 112, 101, 114, 116,
    121, 32, 102, 108, 111, 97, 116, 32, 121, 10, 112, 114, 111, 112, 101, 114, 116, 121, 32, 102,
    108, 111, 97, 116, 32, 122, 10, 101, 110, 100, 95, 104, 101, 97, 100, 101, 114, 10>>
    \o
    <<0, 0, 0, 64, 0, 0, 96, 64, 0, 0, 160, 64, 0, 0, 192, 64>>,
   \* an unsupported format token
   \*   ply
   \*   format binary_big_endian 1.0
   \*   element vertex 1
   \*   property float x
   \*   property float y
   \*   property float z
   \*   end_header
   bigEndian |->
    <<112, 108, 121, 10, 102, 111, 114, 109, 97, 116, 32, 98, 105, 110, 97, 114, 121, 95, 98, 105,
    103, 95, 101, 110, 100, 105, 97, 110, 32, 49, 46, 48, 10, 101, 108, 101, 109, 101, 110, 116,
    32, 118, 101, 114, 116, 101, 120, 32, 49, 10, 112, 114, 111, 112, 101, 114, 116, 121, 32, 102,
    108, 111, 97, 116, 32, 120, 10, 112, 114, 111, 112, 101, 114, 116, 121, 32, 102, 108, 111, 97,
    116, 32, 121, 10, 112, 114, 111, 112, 101, 114, 116, 121, 32, 102, 108, 111, 97, 116, 32, 122,
    10, 101, 110, 100, 95, 104, 101, 97, 100, 101, 114, 10>>
    \o
    <<63, 128, 0, 0, 64, 0, 0, 0, 64, 96, 0, 0>>]

\* streams whose records carry spherical-harmonics properties
ColourPayloads ==
   \* two records with the DC terms only: (1,2,3.5 | 1,2,-1), (4,5,6 | 0,1,2)
   \*   ply
   \*   format binary_little_endian 1.0
   \*   element vertex 2
   \*   property float x
   \*   property float y
   \*   property float z
   \*   property float f_dc_0
   \*   property float f_dc_1
   \*   property float f_dc_2
   \*   end_header
  [dc |->
    <<112, 108, 121, 10, 102, 111, 114, 109, 97, 116, 32, 98, 105, 110, 97, 114, 121, 95, 108, 105,
    116, 116, 108, 101, 95, 101, 110, 100, 105, 97, 110, 32, 49, 46, 48, 10, 101, 108, 101, 109,
    101, 110, 116, 32, 118, 101, 114, 116, 101, 120, 32, 50, 10, 112, 114, 111, 112, 101, 114, 116,
    121, 32, 102, 108, 111, 97, 116, 32, 120, 10, 112, 114, 111, 112, 101, 114, 116, 121, 32, 102,
    108, 111, 97, 116, 32, 121, 10, 112, 114, 111, 112, 101, 114, 116, 121, 32, 102, 108, 111, 97,
    116, 32, 122, 10, 112, 114, 111, 112, 101, 114, 116, 121, 32, 102, 108, 111, 97, 116, 32, 102,
    95, 100, 99, 95, 48, 10, 112, 114, 111, 112, 101, 114, 116, 121, 32, 102, 108, 111, 97, 116, 32,
    102, 95, 100, 99, 95, 49, 10, 112, 114, 111, 112, 101, 114, 116, 121, 32, 102, 108, 111, 97,
    116, 32, 102, 95, 100, 99, 95, 50, 10, 101, 110, 100, 95, 104, 101, 97, 100, 101, 114, 10>>
    \o
    <<0, 0, 128, 63, 0, 0, 0, 64, 0, 0, 96, 64, 0, 0, 128, 63, 0, 0, 0, 64, 0, 0, 128, 191, 0, 0,
    128, 64, 0, 0, 160, 64, 0, 0, 192, 64, 0, 0, 0, 0, 0, 0, 128, 63, 0, 0, 0, 64>>,
   \* two records with DC terms and one f_rest_* triple:
   \* (1,2,3.5 | 1,2,-1 | 4,5,6), (4,5,6 | 0,1,2 | 7,8,9)
   \*   ply
   \*   format binary_little_endian 1.0
   \*   element vertex 2
   \*   property float x
   \*   property float y
   \*   property float z
   \*   property float f_dc_0
   \*   property float f_dc_1
   \*   property float f_dc_2
   \*   property float f_rest_0
   \*   property float f_rest_1
   \*   property float f_rest_2
   \*   end_header
   dcRest |->
    <<112, 108, 121, 10, 102, 111, 114, 109, 97, 116, 32, 98, 105, 110, 97, 114, 121, 95, 108, 105,
    116, 116, 108, 101, 95, 101, 110, 100, 105, 97, 110, 32, 49, 46, 48, 10, 101, 108, 101, 109,
    101, 110, 116, 32, 118, 101, 114, 116, 101, 120, 32, 50, 10, 112, 114, 111, 112, 101, 114, 116,
    121, 32, 102, 108, 111, 97, 116, 32, 120, 10, 112, 114, 111, 112, 101, 114, 116, 121, 32, 102,
    108, 111, 97, 116, 32, 121, 10, 112, 114, 111, 112, 101, 114, 116, 121, 32, 102, 108, 111, 97,
    116, 32, 122, 10, 112, 114, 111, 112, 101, 114, 116, 121, 32, 102, 108, 111, 97, 116, 32, 102,
    95, 100, 99, 95, 48, 10, 112, 114, 111, 112, 101, 114, 116, 121, 32, 102, 108, 111, 97, 116, 32,
    102, 95, 100, 99, 95, 49, 10, 112, 114, 111, 112, 101, 114, 116, 121, 32, 102, 108, 111, 97,
    116, 32, 102, 95, 100, 99, 95, 50, 10, 112, 114, 111, 112, 101, 114, 116, 121, 32, 102, 108,
    111, 97, 116, 32, 102, 95, 114, 101, 115, 116, 95, 48, 10, 112, 114, 111, 112, 101, 114, 116,
    121, 32, 102, 108, 111, 97, 116, 32, 102, 95, 114, 101, 115, 116, 95, 49, 10, 112, 114, 111,
    112, 101, 114, 116, 121, 32, 102, 108, 111, 97, 116, 32, 102, 95, 114, 101, 115, 116, 95, 50,
    10, 101, 110, 100, 95, 104, 101, 97, 100, 101, 114, 10>>
    \o
    <<0, 0, 128, 63, 0, 0, 0, 64, 0, 0, 96, 64, 0, 0, 128, 63, 0, 0, 0, 64, 0, 0, 128, 191, 0, 0,
    128, 64, 0, 0, 160, 64, 0, 0, 192, 64, 0, 0, 128, 64, 0, 0, 160, 64, 0, 0, 192, 64, 0, 0, 0, 0,
    0, 0, 128, 63, 0, 0, 0, 64, 0, 0, 224, 64, 0, 0, 0, 65, 0, 0, 16, 65>>]

\* streams whose byte count differs from vertexCount * stride
TailPayloads ==
   \* two records declared, (1,2,3.5) and (4,5,6), and the twelve bytes of a third
   \* record (7,8,9) after them
   \*   ply
   \*   format binary_little_endian 1.0
   \*   element vertex 2
   \*   property float x
   \*   property float y
   \*   property float z
   \*   end_header
  [extra |->
    <<112, 108, 121, 10, 102, 111, 114, 109, 97, 116, 32, 98, 105, 110, 97, 114, 121, 95, 108, 105,
    116, 116, 108, 101, 95, 101, 110, 100, 105, 97, 110, 32, 49, 46, 48, 10, 101, 108, 101, 109,
    101, 110, 116, 32, 118, 101, 114, 116, 101, 120, 32, 50, 10, 112, 114, 111, 112, 101, 114, 116,
    121, 32, 102, 108, 111, 97, 116, 32, 120, 10, 112, 114, 111, 112, 101, 114, 116, 121, 32, 102,
    108, 111, 97, 116, 32, 121, 10, 112, 114, 111, 112, 101, 114, 116, 121, 32, 102, 108, 111, 97,
    116, 32, 122, 10, 101, 110, 100, 95, 104, 101, 97, 100, 101, 114, 10>>
    \o
    <<0, 0, 128, 63, 0, 0, 0, 64, 0, 0, 96, 64, 0, 0, 128, 64, 0, 0, 160, 64, 0, 0, 192, 64, 0, 0,
    224, 64, 0, 0, 0, 65, 0, 0, 16, 65>>,
   \* three records declared; the stream ends seven bytes into the third
   \*   ply
   \*   format binary_little_endian 1.0
   \*   element vertex 3
   \*   property float x
   \*   property float y
   \*   property float z
   \*   end_header
   cut |->
    <<112, 108, 121, 10, 102, 111, 114, 109, 97, 116, 32, 98, 105, 110, 97, 114, 121, 95, 108, 105,
    116, 116, 108, 101, 95, 101, 110, 100, 105, 97, 110, 32, 49, 46, 48, 10, 101, 108, 101, 109,
    101, 110, 116, 32, 118, 101, 114, 116, 101, 120, 32, 51, 10, 112, 114, 111, 112, 101, 114, 116,
    121, 32, 102, 108, 111, 97, 116, 32, 120, 10, 112, 114, 111, 112, 101, 114, 116, 121, 32, 102,
    108, 111, 97, 116, 32, 121, 10, 112, 114, 111, 112, 101, 114, 116, 121, 32, 102, 108, 111, 97,
    116, 32, 122, 10, 101, 110, 100, 95, 104, 101, 97, 100, 101, 114, 10>>
    \o
    <<0, 0, 128, 63, 0, 0, 0, 64, 0, 0, 96, 64, 0, 0, 128, 64, 0, 0, 160, 64, 0, 0, 192, 64, 0, 0,
    224, 64, 0, 0, 0>>]

\* the bytes of the response body
Body ==
  IF payload \in DOMAIN Payloads THEN Payloads[payload]
  ELSE IF payload \in DOMAIN ColourPayloads THEN ColourPayloads[payload]
  ELSE TailPayloads[payload]

\* records per cooperative batch (the batchSize argument of PlyStreamParser)
BatchSize == 2

(***************************************************************************)
(* The depth-order sort worker (the workerCode string of                   *)
(* GSplatStreamPrimitive._createSortWorker).  Coordinates are integers;    *)
(* centres is the sequence of (x, y, z) triples of the Float32Array, and   *)
(* order is a 0-based array written as a function on 0 .. length-1.        *)
(***************************************************************************)
compareBits == 16
bucketCount == (2 ^ compareBits) + 1

Dot(a, b) == a[1] * b[1] + a[2] * b[2] + a[3] * b[3]
Sub(a, b) == <<a[1] - b[1], a[2] - b[2], a[3] - b[3]>>

\* a 0-based array from a sequence, and its length
ArrayLen(arr) == Cardinality(DOMAIN arr)

\* the module-level variables of the worker script
WorkerInit ==
  [order |-> None, centers |-> None,
   cameraPosition |-> None, cameraDirection |-> None,
   forceUpdate |-> FALSE,
   lastCameraPosition |-> <<0, 0, 0>>, lastCameraDirection |-> <<0, 0, 0>>,
   boundMin |-> <<0, 0, 0>>, boundMax |-> <<0, 0, 0>>,
   distances |-> << >>,
   inbox |-> << >>,       \* messages posted to the worker, oldest first
   terminated |-> FALSE,  \* worker.terminate() was called
   outbox |-> << >>,      \* messages posted to the main side, oldest first
   sortedCenters |-> << >>]  \* history: the centres the last sort ran on

\* signed distance of point c along the camera forward axis
ForwardDist(c, pos, dir) == Dot(Sub(c, pos), dir)

\* the signed forward distances of the 8 corners of the bounding box
CornerDists(bmin, bmax, pos, dir) ==
  {ForwardDist(<<x, y, z>>, pos, dir) :
     x \in {bmin[1], bmax[1]}, y \in {bmin[2], bmax[2]}, z \in {bmin[3], bmax[3]}}

\* Math.floor((d - minDist) * divider), where divider is 0 for a degenerate
\* range (range < 1e-6) and 1 / range * 2^compareBits otherwise
QuantisedDistance(d, minDist, range) ==
  IF range = 0 THEN 0
  ELSE ((d - minDist) * (2 ^ compareBits)) \div range

\* the inverted key: farther points get the smaller key
SortKey(d, minDist, range) == bucketCount - 1 - QuantisedDistance(d, minDist, range)

\* countBuffer after the counting pass and the prefix sum, at the buckets in
\* use: the number of points whose key is at most k
Cumulative(distances, k) ==
  Cardinality({i \in 1..Len(distances) : distances[i] <= k})

\* a slip: the scatter reads the counter without decrementing it first
DestIndex_PostDecrement(countBuffer, distance) == countBuffer[distance]

\* --countBuffer[distance]
DestIndex(countBuffer, distance) == countBuffer[distance] - 1

\* the scatter loop: for i = 0 .. numVertices-1, order[--countBuffer[key]] = i
RECURSIVE Scatter(_, _, _, _)
Scatter(distances, i, counters, buffer) ==
  With(counters, LAMBDA countBuffer :
  With(buffer, LAMBDA order :
    IF i >= Len(distances) THEN order
    ELSE With(DestIndex(countBuffer, distances[i + 1]), LAMBDA destIndex :
           Scatter(distances, i + 1,
                   [countBuffer EXCEPT ![distances[i + 1]] = @ - 1],
                   IF destIndex \in DOMAIN order
                   THEN [order EXCEPT ![destIndex] = i] ELSE order))))

\* binarySearch(m, n, compare_fn), compare_fn given by its values cmp[k]
RECURSIVE binarySearch(_, _, _)
binarySearch(m, n, cmp) ==
  IF ~(m <= n) THEN -m - 1          \* ~m
  ELSE With((n + m) \div 2, LAMBDA k :      \* (n + m) >> 1
         IF cmp[k] > 0 THEN binarySearch(k + 1, n, cmp)
         ELSE IF cmp[k] < 0 THEN binarySearch(m, k - 1, cmp)
         ELSE k)

\* dist(i) of the worker, scaled by the positive factor 2^compareBits when the
\* range is not degenerate (only its sign is used): the distance recovered
\* from the bucket of the i-th point of the sorted order
DistScaled(i, order, distances, centers, pos, dir, minDist, range) ==
  IF range = 0 THEN ForwardDist(centers[order[i] + 1], pos, dir)
  ELSE (bucketCount - 1 - distances[order[i] + 1]) * range + minDist * (2 ^ compareBits)

\* findZero()
findZero(numVertices, dist) ==
  With(binarySearch(0, numVertices - 1, [k \in DOMAIN dist |-> -dist[k]]), LAMBDA result :
    IF result < 0 THEN (IF dist[0] >= 0 THEN numVertices ELSE 0) ELSE result)

\* the count sent with the reply
TrimCount(numVertices, dist) ==
  IF numVertices = 0 THEN 0        \* dist(-1) is NaN, NaN >= 0 is false
  ELSE IF dist[numVertices - 1] >= 0 THEN findZero(numVertices, dist)
  ELSE numVertices

\* update()
WorkerUpdate(worker) ==
  With(worker, LAMBDA w :
    IF w.order = None \/ w.centers = None \/ w.cameraPosition = None \/ w.cameraDirection = None
    THEN w
    ELSE IF /\ ~w.forceUpdate
            /\ w.cameraPosition[1] = w.lastCameraPosition
            /\ w.cameraDirection[1] = w.lastCameraDirection
    THEN w
    ELSE
      LET pos == w.cameraPosition[1]
          dir == w.cameraDirection[1]
          centers == w.centers[1]
          numVertices == Len(centers)
      IN  IF numVertices = 0
          THEN \* the bounds are NaN, so are minDist, range and divider; no
               \* loop runs, and dist(-1) >= 0 is false
               [w EXCEPT !.forceUpdate = FALSE,
                         !.lastCameraPosition = pos,
                         !.lastCameraDirection = dir,
                         !.distances = << >>,
                         !.outbox = Append(@, [order |-> w.order[1], count |-> 0]),
                         !.sortedCenters = centers,
                         !.order = None]
          ELSE
          With(CornerDists(w.boundMin, w.boundMax, pos, dir), LAMBDA corners :
          With(MinOf(corners), LAMBDA minDist :
          With(MaxOf(corners) - minDist, LAMBDA range :
          With([i \in 1..numVertices |->
                  SortKey(ForwardDist(centers[i], pos, dir), minDist, range)],
               LAMBDA distances :
          With(Scatter(distances, 0,
                       [k \in {distances[i] : i \in 1..numVertices} |->
                          Cumulative(distances, k)],
                       w.order[1]), LAMBDA order :
          With([i \in 0..(numVertices - 1) |->
                  DistScaled(i, order, distances, centers, pos, dir, minDist, range)],
               LAMBDA dist :
            [w EXCEPT !.forceUpdate = FALSE,
                      !.lastCameraPosition = pos,
                      !.lastCameraDirection = dir,
                      !.distances = distances,
                      !.outbox = Append(@, [order |-> order,
                                            count |-> TrimCount(numVertices, dist)]),
                      !.sortedCenters = centers,
                      !.order = None])))))))

\* componentwise bounds of the centres (centres[0] alone when there is one)
BoundMin(centers) ==
  [a \in 1..3 |-> MinOf({centers[i][a] : i \in 1..Len(centers)})]
BoundMax(centers) ==
  [a \in 1..3 |-> MaxOf({centers[i][a] : i \in 1..Len(centers)})]

\* self.onmessage; every field of the message is optional
WorkerOnMessage(w, message) ==
  WorkerUpdate(
    [w EXCEPT !.order = IF message.order # None THEN message.order ELSE @,
              !.centers = IF message.centers # None THEN message.centers ELSE @,
              !.boundMin = IF message.centers = None THEN @
                           ELSE IF Len(message.centers[1]) = 0 THEN <<NaN, NaN, NaN>>
                           ELSE BoundMin(message.centers[1]),
              !.boundMax = IF message.centers = None THEN @
                           ELSE IF Len(message.centers[1]) = 0 THEN <<NaN, NaN, NaN>>
                           ELSE BoundMax(message.centers[1]),
              !.forceUpdate = IF message.centers # None THEN TRUE ELSE @,
              !.cameraPosition =
                 IF message.cameraPosition # None THEN message.cameraPosition ELSE @,
              !.cameraDirection =
                 IF message.cameraDirection # None THEN message.cameraDirection ELSE @])

\* a message with the given optional fields
Message(order, centers, cameraPosition, cameraDirection) ==
  [order |-> order, centers |-> centers,
   cameraPosition |-> cameraPosition, cameraDirection |-> cameraDirection]

(***************************************************************************)
(* GSplatStreamPrimitive.  An array of the primitive is kept as its length, *)
(* the value `zero` it is filled with when allocated, and `at`, the        *)
(* entries that differ from zero.  A float32 is its bit pattern (4 bytes,  *)
(* most significant first), and so is a 32-bit word of the TransformA      *)
(* buffer.  One entry of a packed buffer is the tuple of the 4 elements of *)
(* one texel; one entry of the position buffer is an (x, y, z) triple.     *)
(***************************************************************************)
\* new TypedArray(n).fill(zero)
Filled(n, zero) == [length |-> n, zero |-> zero, at |-> << >>]

\* the array of length n whose entry i is f(i)
ArrayFrom(n, zero, f(_)) ==
  [length |-> n, zero |-> zero,
   at |-> [i \in {j \in 0..(n - 1) : f(j) # zero} |-> f(i)]]

\* arr[i] and arr[i] = v of JavaScript: outside the array a read gives
\* undefined and a write is ignored
InArray(arr, i) == i >= 0 /\ i < arr.length
Get(arr, i) ==
  IF i \in DOMAIN arr.at THEN arr.at[i]
  ELSE IF InArray(arr, i) THEN arr.zero ELSE UNDEF
Put(arr, i, v) ==
  IF ~InArray(arr, i) THEN arr
  ELSE [arr EXCEPT !.at =
          [j \in (DOMAIN arr.at \cup {i}) \ (IF v = arr.zero THEN {i} ELSE {}) |->
             IF j = i THEN v ELSE arr.at[j]]]

RECURSIVE Pow2(_)
Pow2(k) == IF k = 0 THEN 1 ELSE 2 * Pow2(k - 1)

\* a | b and a ^ b on non-negative integers
RECURSIVE BitOr(_, _)
BitOr(a, b) ==
  IF a = 0 THEN b ELSE IF b = 0 THEN a
  ELSE Max(a % 2, b % 2) + 2 * BitOr(a \div 2, b \div 2)

RECURSIVE BitXor(_, _)
BitXor(a, b) ==
  IF a = 0 THEN b ELSE IF b = 0 THEN a
  ELSE ((a + b) % 2) + 2 * BitXor(a \div 2, b \div 2)

\* a ^ b on int32 (two's complement: ~x = -x - 1)
Xor32(a, b) ==
  IF a >= 0 /\ b >= 0 THEN BitXor(a, b)
  ELSE IF a < 0 /\ b < 0 THEN BitXor(-a - 1, -b - 1)
  ELSE IF a < 0 THEN -BitXor(-a - 1, b) - 1
  ELSE -BitXor(a, -b - 1) - 1

\* the number a float32 holds, for zero and for integers below 2^24
F32Int(f) ==
  LET e == (f[1] % 128) * 2 + (f[2] \div 128)
      sig == 8388608 + (f[2] % 128) * 65536 + f[3] * 256 + f[4]
      neg == f[1] >= 128
  IN  CASE e = 0 /\ sig = 8388608 -> 0
        [] e \in 127..150 /\ sig % Pow2(150 - e) = 0 ->
             IF neg THEN -(sig \div Pow2(150 - e)) ELSE sig \div Pow2(150 - e)

\* a key that orders float32 values (no NaN) as the numbers they hold
F32Key(f) ==
  LET m == (f[1] % 128) * 16777216 + f[2] * 65536 + f[3] * 256 + f[4]
  IN  IF f[1] >= 128 THEN -m ELSE m

\* Math.ceil(a / b) for naturals
CeilDiv(a, b) == (a + b - 1) \div b

\* GSplatStreamUtils.evalTextureSize (Math.ceil(count / 0) is Infinity for
\* count > 0; initCount never passes 0)
evalTextureSize(count) ==
  LET \* Math.ceil(Math.sqrt(count))
      ceilSqrt == CHOOSE r \in 0..count :
                    r * r >= count /\ (r = 0 \/ (r - 1) * (r - 1) < count)
  IN  With(CeilDiv(ceilSqrt, 64) * 64, LAMBDA w :
        [x |-> w, y |-> CeilDiv(count, w)])

\* GSplatStreamUtils.toHalfFloat, on the bits of the float32
toHalfFloat(val) ==
  LET sign == IF val[1] >= 128 THEN 32768 ELSE 0            \* (x >> 16) & 0x8000
      m == (val[2] % 128) * 16 + (val[3] \div 16)            \* (x >> 12) & 0x07ff
      e == (val[1] % 128) * 2 + (val[2] \div 128)            \* (x >> 23) & 0xff
      mantissa == (val[2] % 128) * 65536 + val[3] * 256 + val[4]   \* x & 0x007fffff
  IN  IF e < 103 THEN sign
      ELSE IF e > 142
        THEN BitOr(sign + 31744, IF e = 255 THEN mantissa ELSE 0)
      ELSE IF e < 114
        THEN sign + ((m + 2048) \div Pow2(114 - e))
                  + (((m + 2048) \div Pow2(113 - e)) % 2)
      ELSE sign + (e - 112) * 1024 + (m \div 2) + (m % 2)

\* the covariance entries (cAx, cAy, cAz, cBx, cBy, cBz) updateTransformData
\* computes, as float32: rotation absent or the unit quaternion (0,0,0,1),
\* scale absent or exp(0)
Covariance(data) ==
  CASE /\ data.rotation \in {None, Some(<<F32.zero, F32.zero, F32.zero, F32.v1>>)}
       /\ data.scale \in {None, Some(<<F32.zero, F32.zero, F32.zero>>)}
       -> [cAx |-> F32.v1, cAy |-> F32.zero, cAz |-> F32.zero,
           cBx |-> F32.v1, cBy |-> F32.zero, cBz |-> F32.v1]

\* the RGBA bytes setSplatData writes for a record
ColorOf(data) ==
  LET \* Math.max(0, Math.min(255, Math.floor(v * 255))) for v = 0.5 + c * SH_C0,
      \* c an integer (SH_C0 * 255 = 71.934172 to 6 places)
      colorByte(c) == Max(0, Min(255, (127500000 + c * 71934172) \div 1000000))
      \* the same for v = 1 / (1 + exp(-opacity))
      alphaByte(opacity) ==
        CASE opacity = 0 -> 127
          [] opacity = 1 -> 186
          [] opacity = -1 -> 68
      sh(k) == IF data.sh # None /\ Len(data.sh[1].coeffs) >= 3
               THEN colorByte(F32Int(data.sh[1].coeffs[k + 1]))
               ELSE 127                 \* floor(0.5 * 255)
  IN  <<sh(0), sh(1), sh(2),
        IF data.opacity # None THEN alphaByte(F32Int(data.opacity[1])) ELSE 255>>

\* the TransformA and TransformB texels updateTransformData writes
\* (x & 0xffff is x % 65536)
TransformAOf(data) ==
  LET \* the 32-bit word hx | (hy << 16) as bytes
      packHalves(hx, hy) == <<hy \div 256, hy % 256, hx \div 256, hx % 256>>
  IN  With(Covariance(data), LAMBDA c :
        <<data.position[1], data.position[2], data.position[3],
          packHalves(toHalfFloat(c.cBx) % 65536, toHalfFloat(c.cBy) % 65536)>>)

TransformBOf(data) ==
  With(Covariance(data), LAMBDA c :
    <<toHalfFloat(c.cAx) % 65536, toHalfFloat(c.cAy) % 65536,
      toHalfFloat(c.cAz) % 65536, toHalfFloat(c.cBz) % 65536>>)

\* the constructor without a totalCount option.  Beside the fields of the
\* object: renderRequested is the scene's request-render flag, and call,
\* transfers and posted describe the handler that ran last (its name, index
\* argument and exception; the texture uploads it issued; the messages it
\* posted to the worker).
PrimInit ==
  [ isDestroyed |-> FALSE, show |-> TRUE,
    totalCount |-> 0, size |-> [x |-> 0, y |-> 0],
    localBoundBox |-> [min |-> <<F32.inf, F32.inf, F32.inf>>,
                       max |-> <<F32.minf, F32.minf, F32.minf>>],
    splatColor |-> None, transformA |-> None, transformB |-> None, splatOrder |-> None,
    texParams |-> None, texParamDirty |-> TRUE,
    colorData |-> None, transformAData |-> None, transformBData |-> None,
    orderData |-> None, positions |-> None, splatSetFlags |-> None,
    validCount |-> 0,
    sortWorker |-> FALSE, lastSentTime |-> 0, minIntervalMs |-> 16,
    centersSent |-> FALSE, lastViewMatrixHash |-> 0, workerHasReturned |-> FALSE,
    adaptiveSorting |-> TRUE, batchSize |-> 128, instanceCount |-> 0,
    pendingUpdates |-> {}, autoFlushThreshold |-> 10000,
    frameCount |-> 0, flushFrameLimit |-> 10, flushInterval |-> 1000,
    lastTimeStamp |-> 0,
    vertexArray |-> FALSE, shaderProgram |-> FALSE, boundingSphere |-> FALSE,
    drawCommand |-> None, context |-> FALSE, dirty |-> TRUE, prevViewMatrix |-> None,
    renderRequested |-> FALSE,
    call |-> [op |-> "constructor", index |-> 0, thrown |-> "none"],
    transfers |-> << >>, posted |-> << >> ]

\* the clock (milliseconds), the number of initCount calls, setSplatData
\* calls and frames so far, and what an observer of the render loop notes:
\* the number of update ticks so far, the number of ticks that ended with
\* the pending set non-empty since it was last empty, the number of ticks
\* the pending set had lasted when a tick last committed it, and the time of
\* the last commit (None before the first); the camera of the last frame
\* (None before the first), and whether a commit has changed the set of
\* valid positions since centres were last posted to the worker
EnvInit ==
  [clock |-> 0, calls |-> 0, ticks |-> 0, waited |-> 0, lastWait |-> 0, lastCommit |-> None,
   view |-> None, stale |-> FALSE]

\* entry of a handler, and a throw inside it
Begin(p, op, index) ==
  [p EXCEPT !.call = [op |-> op, index |-> index, thrown |-> "none"],
            !.transfers = << >>, !.posted = << >>]
Throw(p, error) == [p EXCEPT !.call.thrown = error]
Thrown(p) == p.call.thrown # "none"

\* isDestroyed(), which Cesium.destroyObject makes return true; and a check
\* that never finds the object destroyed
IsDestroyed_Never(p) == FALSE
IsDestroyed(p) == p.isDestroyed

\* the fields of the object and the scene's flag, without the description of
\* the last handler
Object(p) == [p EXCEPT !.call = PrimInit.call, !.transfers = << >>, !.posted = << >>]

\* initCount(totalCount, batchSize)
InitCount(prim0, totalCount, batchSize) ==
  With(Begin(prim0, "initCount", totalCount), LAMBDA p :
    IF IsDestroyed(p) THEN Throw(p, "DeveloperError")
    ELSE IF totalCount <= 0 THEN Throw(p, "DeveloperError")
    ELSE
      With(evalTextureSize(totalCount), LAMBDA size :
        [p EXCEPT !.totalCount = totalCount,
                  !.batchSize = batchSize,
                  !.size = size,
                  !.colorData = Some(Filled(size.x * size.y, <<0, 0, 0, 0>>)),
                  !.transformAData =
                     Some(Filled(size.x * size.y, <<F32.zero, F32.zero, F32.zero, F32.zero>>)),
                  !.transformBData = Some(Filled(size.x * size.y, <<0, 0, 0, 0>>)),
                  !.orderData =
                     Some(ArrayFrom(size.x * size.y, 0,
                                    LAMBDA i : IF i < totalCount THEN i ELSE totalCount - 1)),
                  !.positions = Some(Filled(totalCount, <<F32.zero, F32.zero, F32.zero>>)),
                  !.localBoundBox = PrimInit.localBoundBox,
                  !.splatSetFlags = Some(Filled(totalCount, FALSE)),
                  !.validCount = 0,
                  !.texParams = Some(<<0, size.x, 0, 1>>),
                  !.instanceCount = 0,
                  !.dirty = TRUE]))

\* new Cesium.Texture({source}): its dimensions and its texels, row after
\* row, kept like an array (the texels that differ from zero)
Texture(width, height, source) ==
  [width |-> width, height |-> height, zero |-> source.zero,
   at |-> [i \in {j \in DOMAIN source.at : j < width * height} |-> source.at[i]]]

\* Texture.copyFrom of a width x height source at (xOffset, yOffset), for a
\* region inside the texture: texel (yOffset + r, xOffset + c) receives
\* source[r * width + c]
CopyFrom(tex, xOffset, yOffset, width, height, source) ==
  LET inRegion(i) ==
        /\ i \div tex.width >= yOffset /\ i \div tex.width < yOffset + height
        /\ i % tex.width >= xOffset /\ i % tex.width < xOffset + width
      texel(k) == (yOffset + (k \div width)) * tex.width + xOffset + (k % width)
      from(i) == ((i \div tex.width) - yOffset) * width + ((i % tex.width) - xOffset)
  IN  [tex EXCEPT !.at =
         [i \in {j \in DOMAIN tex.at : ~inRegion(j)}
                  \cup {texel(k) : k \in {j \in DOMAIN source.at : j < width * height}} |->
            IF inRegion(i) THEN source.at[from(i)] ELSE tex.at[i]]]

\* does the region lie inside the texture (copyFrom checks it in Cesium's
\* debug build and throws; in the release build WebGL rejects the upload)
Fits(tex, xOffset, yOffset, width, height) ==
  xOffset >= 0 /\ yOffset >= 0 /\ xOffset + width <= tex.width /\ yOffset + height <= tex.height

Transfer(texture, kind, x, y, width, height) ==
  [texture |-> texture, kind |-> kind, x |-> x, y |-> y, width |-> width, height |-> height]

\* texture.copyFrom({source, xOffset, yOffset}) on the texture field `name`;
\* nothing happens once the handler has thrown
Upload(p, name, x, y, width, height, source, debug) ==
  IF Thrown(p) THEN p
  ELSE IF Fits(p[name][1], x, y, width, height)
    THEN [p EXCEPT ![name] = Some(CopyFrom(p[name][1], x, y, width, height, source)),
                   !.transfers = Append(@, Transfer(name, "copy", x, y, width, height))]
  ELSE IF debug THEN Throw(p, "DeveloperError")
  ELSE p

\* one of the four blocks of _updateTextures: create the texture or copy all
CreateOrCopy(p, name, width, height, source, debug) ==
  IF Thrown(p) THEN p
  ELSE IF p[name] = None
    THEN [p EXCEPT ![name] = Some(Texture(width, height, source)),
                   !.transfers = Append(@, Transfer(name, "create", 0, 0, width, height))]
  ELSE Upload(p, name, 0, 0, width, height, source, debug)

\* _updateTextures(width, height, context); context is whether one was passed
UpdateTextures(prim0, width, height, context, debug) ==
  IF ~context /\ ~prim0.context THEN prim0
  ELSE
    With([prim0 EXCEPT !.context = TRUE], LAMBDA p0 :
    With(CreateOrCopy(p0, "splatColor", width, height, p0.colorData[1], debug), LAMBDA p1 :
    With(CreateOrCopy(p1, "transformA", width, height, p1.transformAData[1], debug), LAMBDA p2 :
    With(CreateOrCopy(p2, "transformB", width, height, p2.transformBData[1], debug), LAMBDA p3 :
      CreateOrCopy(p3, "splatOrder", width, height, p3.orderData[1], debug)))))

\* a slip: the copy taken from the start of the buffer
Region_FromStart(buffer, width, startRow, rowCount, startCol, colCount) ==
  [length |-> rowCount * colCount, zero |-> buffer.zero,
   at |-> [k \in {j \in DOMAIN buffer.at : j < rowCount * colCount} |-> buffer.at[k]]]

\* the contiguous copy of a rectangle of a packed buffer: a new zero-filled
\* array that receives, row by row, the part of the row the buffer has
\* (partial[r * colCount + c] = buffer[(startRow + r) * width + startCol + c])
Region(buffer, width, startRow, rowCount, startCol, colCount) ==
  LET inRegion(i) ==
        /\ i \div width >= startRow /\ i \div width < startRow + rowCount
        /\ i % width >= startCol /\ i % width < startCol + colCount
      partial(i) == ((i \div width) - startRow) * colCount + ((i % width) - startCol)
      from(k) == (startRow + (k \div colCount)) * width + startCol + (k % colCount)
  IN  [length |-> rowCount * colCount, zero |-> buffer.zero,
       at |-> [k \in {partial(i) : i \in {j \in DOMAIN buffer.at : inRegion(j)}} |->
                 buffer.at[from(k)]]]

\* _updateTexturesPartial
UpdateTexturesPartial(prim0, width, height, startRow, rowCount, startCol, colCount, context, debug) ==
  IF ~context /\ ~prim0.context THEN prim0
  ELSE
    With([prim0 EXCEPT !.context = TRUE], LAMBDA p0 :
      IF p0.splatColor = None \/ p0.transformA = None
           \/ p0.transformB = None \/ p0.splatOrder = None
      THEN UpdateTextures(p0, width, height, context, debug)
      ELSE
        LET up(p, name, buffer) ==
              Upload(p, name, startCol, startRow, colCount, rowCount,
                     Region(buffer, width, startRow, rowCount, startCol, colCount), debug)
        IN  With(up(p0, "splatColor", p0.colorData[1]), LAMBDA p1 :
            With(up(p1, "transformA", p1.transformAData[1]), LAMBDA p2 :
            With(up(p2, "transformB", p2.transformBData[1]), LAMBDA p3 :
              up(p3, "splatOrder", p3.orderData[1])))))

\* the range check of setSplatData
RangeError_NoLowerBound(index, totalCount) == index >= totalCount
RangeError(index, totalCount) == index < 0 \/ index >= totalCount

\* _validCount after setSplatData, given whether the index was already set
CountAfterSet_Toggle(validCount, wasSet) ==
  IF wasSet THEN validCount - 1 ELSE validCount + 1
CountAfterSet_Always(validCount, wasSet) == validCount + 1
CountAfterSet(validCount, wasSet) == IF wasSet THEN validCount ELSE validCount + 1

\* a box that is set to the last position instead of being extended
UpdateLocalBoundBox_Reset(box, position) == [min |-> position, max |-> position]

\* _updateLocalBoundBox
UpdateLocalBoundBox(box, position) ==
  LET \* Math.min / Math.max on float32 values
      mathMin(a, b) == IF F32Key(b) < F32Key(a) THEN b ELSE a
      mathMax(a, b) == IF F32Key(b) > F32Key(a) THEN b ELSE a
  IN  [min |-> [a \in 1..3 |-> mathMin(box.min[a], position[a])],
       max |-> [a \in 1..3 |-> mathMax(box.max[a], position[a])]]

\* the early return of flushUpdates
FlushReturnsEarly_Never(pendingUpdates) == FALSE
FlushReturnsEarly(pendingUpdates) == Cardinality(pendingUpdates) = 0

\* updateRatio < 0.5 && (rowCount < h || colCount < w)
UsePartial_Never(rowCount, colCount, w, h) == FALSE
UsePartial_Neither(rowCount, colCount, w, h) ==
  2 * rowCount * colCount < h * w /\ (rowCount < h /\ colCount < w)
UsePartial(rowCount, colCount, w, h) ==
  2 * rowCount * colCount < h * w /\ (rowCount < h \/ colCount < w)

\* a commit that leaves the centres the worker has as they are
UpdatePendingWorldPositions_Keep(p) == p

\* updatePendingWorldPositions
UpdatePendingWorldPositions(p) ==
  IF p.positions = None \/ p.validCount = 0 THEN p ELSE [p EXCEPT !.centersSent = FALSE]

\* flushUpdates, after the handler entry
Flush(p, debug) ==
  IF IsDestroyed(p) THEN Throw(p, "DeveloperError")
  ELSE IF FlushReturnsEarly(p.pendingUpdates) THEN p
  ELSE
    LET w == p.size.x
        h == p.size.y
        rows == {index \div w : index \in p.pendingUpdates}
        \* a % b of JavaScript (the sign of the dividend)
        jsRem(a, b) == IF a >= 0 THEN a % b ELSE -((-a) % b)
        cols == {jsRem(index, w) : index \in p.pendingUpdates}
    IN  With(MinOf(rows \cup {h}), LAMBDA minRow :
        With(MaxOf(rows \cup {0}), LAMBDA maxRow :
        With(MinOf(cols \cup {w}), LAMBDA minCol :
        With(MaxOf(cols \cup {0}), LAMBDA maxCol :
        With([p EXCEPT !.pendingUpdates = {}], LAMBDA p1 :
        With(IF p1.context /\ w > 0 /\ h > 0
             THEN IF UsePartial(maxRow - minRow + 1, maxCol - minCol + 1, w, h)
                  THEN UpdateTexturesPartial(p1, w, h, minRow, maxRow - minRow + 1,
                                             minCol, maxCol - minCol + 1, p1.context, debug)
                  ELSE UpdateTextures(p1, w, h, p1.context, debug)
             ELSE p1, LAMBDA p2 :
          IF Thrown(p2) THEN p2
          ELSE [UpdatePendingWorldPositions(p2) EXCEPT !.dirty = TRUE,
                                                      !.renderRequested = TRUE]))))))

\* flushUpdates()
FlushUpdates(prim0, debug) == Flush(Begin(prim0, "flushUpdates", 0), debug)

\* setSplatData(index, data)
SetSplatData(prim0, index, data, debug) ==
  With(Begin(prim0, "setSplatData", index), LAMBDA p :
    IF IsDestroyed(p) THEN Throw(p, "DeveloperError")
    ELSE IF RangeError(index, p.totalCount) THEN Throw(p, "DeveloperError")
    ELSE IF p.splatSetFlags = None THEN Throw(p, "TypeError")   \* undefined[index]
    ELSE
      With(InArray(p.splatSetFlags[1], index) /\ Get(p.splatSetFlags[1], index),
           LAMBDA wasSet :
      With([p EXCEPT
              !.positions = Some(Put(@[1], index, data.position)),
              !.localBoundBox = UpdateLocalBoundBox(@, data.position),
              !.colorData = Some(Put(@[1], index, ColorOf(data))),
              !.transformAData = Some(Put(@[1], index, TransformAOf(data))),
              !.transformBData = Some(Put(@[1], index, TransformBOf(data))),
              !.splatSetFlags = IF wasSet THEN @ ELSE Some(Put(@[1], index, TRUE)),
              !.validCount = CountAfterSet(@, wasSet),
              !.texParamDirty = IF wasSet THEN @ ELSE TRUE,
              !.pendingUpdates = @ \cup {index},
              !.renderRequested = TRUE], LAMBDA p1 :
        IF Cardinality(p1.pendingUpdates) >= p1.autoFlushThreshold /\ p1.context
        THEN Flush(p1, debug)
        ELSE p1)))

\* setAutoFlushThreshold(threshold)
SetAutoFlushThreshold(prim0, threshold) ==
  [Begin(prim0, "setAutoFlushThreshold", 0) EXCEPT !.autoFlushThreshold = Max(1, threshold)]

\* getStreamingStats(); progress is the fraction <<numerator, denominator>>
GetStreamingStats(p) ==
  [totalCount |-> p.totalCount,
   validCount |-> p.validCount,
   pendingUpdates |-> Cardinality(p.pendingUpdates),
   progress |-> IF p.totalCount > 0 THEN <<p.validCount * 100, p.totalCount>> ELSE <<0, 1>>]

\* setSortThrottle(ms) and setAdaptiveSorting(enabled)
SetSortThrottle(prim0, ms) ==
  [Begin(prim0, "setSortThrottle", 0) EXCEPT !.minIntervalMs = Max(0, ms)]
SetAdaptiveSorting(prim0, enabled) ==
  [Begin(prim0, "setAdaptiveSorting", 0) EXCEPT !.adaptiveSorting = enabled]

\* setCount(c)
SetCount(p, c) ==
  IF p.texParams = None THEN p
  ELSE [p EXCEPT !.texParams = Some([@[1] EXCEPT ![1] = Max(0, c)]), !.texParamDirty = TRUE]

\* _updateTexParams
\* texParams[0] follows validCount also after the worker has returned
UpdateTexParams_Always(p) ==
  IF p.texParamDirty /\ p.texParams # None
  THEN [p EXCEPT !.texParams = Some([@[1] EXCEPT ![2] = p.size.x, ![1] = p.validCount]),
                 !.texParamDirty = FALSE]
  ELSE p

UpdateTexParams(p) ==
  IF p.texParamDirty /\ p.texParams # None
  THEN [p EXCEPT !.texParams =
                    Some([@[1] EXCEPT ![2] = p.size.x,
                                      ![1] = IF p.workerHasReturned THEN @ ELSE p.validCount]),
                 !.texParamDirty = FALSE]
  ELSE p

\* the first component of the u_texParams uniform: the draw count the
\* renderer is handed
TexParamsUniform(p) ==
  IF p.texParams = None THEN 0
  ELSE IF ~p.workerHasReturned THEN p.validCount
  ELSE p.texParams[1][1]

\* _buildDrawCommand
BuildDrawCommand(p) ==
  IF p.validCount = 0 THEN [p EXCEPT !.drawCommand = None]
  ELSE IF p.splatColor = None \/ p.transformA = None
            \/ p.transformB = None \/ p.splatOrder = None
    THEN [p EXCEPT !.drawCommand = None]
  ELSE
    With(CeilDiv(p.validCount, p.batchSize), LAMBDA instanceCount :
      [p EXCEPT !.context = TRUE,
                !.shaderProgram = TRUE,
                !.vertexArray = TRUE,
                !.instanceCount = instanceCount,
                !.boundingSphere = TRUE,
                !.drawCommand = Some([instanceCount |-> instanceCount])])

\* the centres _scheduleOrder collects: the positions of the set indices among
\* the first _validCount (modelMatrix is the identity), as numbers
CollectCenters(p) ==
  LET set == SelectSeq([k \in 1..p.validCount |-> k - 1],
                       LAMBDA i : Get(p.splatSetFlags[1], i))
  IN  [k \in 1..Len(set) |-> [a \in 1..3 |-> F32Int(Get(p.positions[1], set[k])[a])]]

\* the same in an array of _validCount centres (zero where none was written)
PaddedCenters(p) ==
  With(CollectCenters(p), LAMBDA centers :
    [k \in 1..p.validCount |-> IF k <= Len(centers) THEN centers[k] ELSE <<0, 0, 0>>])

\* the order buffer the main side builds for a new worker
InitialOrder(totalCount, validCount) ==
  [i \in 0..(totalCount - 1) |->
     IF i < validCount THEN i ELSE (IF validCount > 0 THEN validCount - 1 ELSE 0)]

\* posHash ^ dirHash for camera position and forward axis `view`
ViewHash(view) ==
  LET h(t) == Xor32(Xor32(t[1] * 1000, t[2] * 1000), t[3] * 1000)
  IN  Xor32(h(view.position), h(view.forward))

\* the test that skips a dispatch: the hash of the camera is the one recorded
\* and the worker has the current centres
ViewUnchanged_Never(p, hash) == FALSE
ViewUnchanged(p, hash) == hash = p.lastViewMatrixHash /\ p.centersSent

\* a throttle that always takes the shortest interval
EffectiveThrottle_Shortest(p, hash, now) == p.minIntervalMs * 2

\* effectiveThrottle in tenths of a millisecond
EffectiveThrottle(p, hash, now) ==
  IF p.adaptiveSorting /\ p.minIntervalMs > 0
  THEN LET hashDelta == IF hash >= p.lastViewMatrixHash THEN hash - p.lastViewMatrixHash
                        ELSE p.lastViewMatrixHash - hash
           ms == Max(now - p.lastSentTime, 1)     \* Math.max(deltaTime, 0.001) * 1000
       IN  IF hashDelta * 1000 < 1000 * ms THEN p.minIntervalMs * 10
           ELSE IF hashDelta * 1000 < 10000 * ms THEN p.minIntervalMs * 5
           ELSE p.minIntervalMs * 2
  ELSE p.minIntervalMs * 10

Post(p, message) == [p EXCEPT !.posted = Append(@, message)]

\* _scheduleOrder(viewMatrix) at time now (_lastCameraSpeed, which nothing
\* reads, is left out)
ScheduleOrder(p, view, now) ==
  IF p.validCount = 0 THEN p
  ELSE
    With(ViewHash(view), LAMBDA hash :
      IF ViewUnchanged(p, hash) THEN p
      ELSE IF (now - p.lastSentTime) * 10 < EffectiveThrottle(p, hash, now) THEN p
      ELSE
        With([p EXCEPT !.lastViewMatrixHash = hash, !.lastSentTime = now], LAMBDA p1 :
        With(IF ~p1.sortWorker
             THEN [Post(p1, Message(Some(InitialOrder(p1.totalCount, p1.validCount)),
                                    Some(CollectCenters(p1)), None, None))
                     EXCEPT !.sortWorker = TRUE, !.centersSent = TRUE]
             ELSE IF ~p1.centersSent
               THEN [Post(p1, Message(None, Some(PaddedCenters(p1)), None, None))
                       EXCEPT !.centersSent = TRUE]
             ELSE p1, LAMBDA p2 :
          Post(p2, Message(None, None, Some(view.position),
                           Some([a \in 1..3 |-> -view.forward[a]]))))))

\* a comparison of every entry
CheckPoints_All(validCount) == 0..(validCount - 1)

\* the sampled comparison of the onmessage handler
CheckPoints(validCount) ==
  (IF validCount > 0 THEN {0} ELSE {})
    \cup (IF validCount > 1 THEN {validCount - 1} ELSE {})
    \cup (IF validCount > 2 THEN {validCount \div 2} ELSE {})
    \cup (IF validCount > 10 THEN {validCount \div 4, (validCount * 3) \div 4} ELSE {})

\* _sortWorker.onmessage with ev.data = data
OnMessage(prim0, data, debug) ==
  With(Begin(prim0, "onmessage", 0), LAMBDA p :
    LET total == p.size.x * p.size.y
        indices == data.order
        validCount == Min(p.validCount, ArrayLen(indices))
        reallocate == p.orderData = None \/ p.orderData[1].length # total
        current == IF reallocate THEN Filled(total, 0) ELSE p.orderData[1]
        needsUpdate ==
          \/ reallocate
          \/ validCount <= 0
          \/ \E idx \in CheckPoints(validCount) : Get(current, idx) # indices[idx]
        lastIndex == IF p.validCount > 0 THEN p.validCount - 1 ELSE 0
        written == IF needsUpdate /\ validCount > 0
                   THEN ArrayFrom(total, 0, LAMBDA i :
                                    IF i < validCount THEN indices[i] ELSE lastIndex)
                   ELSE current
    IN  With([p EXCEPT !.orderData = Some(written)], LAMBDA p1 :
        With(IF needsUpdate /\ p1.splatOrder # None /\ p1.context
             THEN Upload(p1, "splatOrder", 0, 0, p1.size.x, p1.size.y, written, debug)
             ELSE p1, LAMBDA p2 :
          IF Thrown(p2) THEN p2
          ELSE IF ~p2.sortWorker THEN Throw(p2, "TypeError")   \* undefined.postMessage
          ELSE
            With(Max(0, Min(p2.validCount, data.count)), LAMBDA valid :
            With(Post(p2, Message(Some([i \in 0..(written.length - 1) |-> Get(written, i)]), None, None, None)), LAMBDA p3 :
            With(IF valid # (IF p3.texParams # None THEN p3.texParams[1][1] ELSE 0)
                 THEN With(SetCount(p3, valid), LAMBDA p4 :
                        IF p4.instanceCount # CeilDiv(valid, p4.batchSize)
                        THEN [p4 EXCEPT !.instanceCount = CeilDiv(valid, p4.batchSize),
                                        !.dirty = TRUE]
                        ELSE p4)
                 ELSE p3, LAMBDA p5 :
              UpdateTexParams([p5 EXCEPT !.workerHasReturned = TRUE])))))))

\* a frame trigger that fires one frame late
FlushDue_Late(p, timeDiff) ==
  /\ p.pendingUpdates # {}
  /\ (p.frameCount > p.flushFrameLimit \/ timeDiff >= p.flushInterval)

\* whether update() commits the pending set, timeDiff being the time since
\* the previous update() call
FlushDue(p, timeDiff) ==
  /\ p.pendingUpdates # {}
  /\ (p.frameCount >= p.flushFrameLimit \/ timeDiff >= p.flushInterval)

\* the test of update() that calls _scheduleOrder (the camera and its view
\* matrix are defined)
DispatchDue(p) == p.validCount > 0 /\ p.frameCount % 10 = 0

\* update(frameState) of a render pass at time now; the frame clears the
\* scene's request-render flag
Update(prim0, view, now, debug) ==
  With([Begin(prim0, "update", 0) EXCEPT !.lastTimeStamp = now,
                                         !.renderRequested = FALSE], LAMBDA p :
    IF IsDestroyed(p) \/ ~p.show THEN p
    ELSE
      With(IF DispatchDue(p) THEN ScheduleOrder(p, view, now) ELSE p, LAMBDA p1 :
      With(IF FlushDue(p1, now - prim0.lastTimeStamp)
           THEN Flush(p1, debug) ELSE p1, LAMBDA p2 :
        IF Thrown(p2) THEN p2
        ELSE
          With(UpdateTexParams(
                 [p2 EXCEPT !.frameCount =
                    (IF @ >= p2.flushFrameLimit /\ p2.pendingUpdates = {} THEN 0 ELSE @) + 1]),
               LAMBDA p3 :
            IF ~p3.dirty /\ p3.prevViewMatrix = Some(view) THEN p3
            ELSE
              With(IF p3.colorData # None /\ p3.totalCount > 0 /\ p3.splatColor = None
                   THEN [UpdateTextures(p3, p3.size.x, p3.size.y, TRUE, debug)
                           EXCEPT !.dirty = TRUE]
                   ELSE p3, LAMBDA p4 :
                IF Thrown(p4) THEN p4
                ELSE
                  With(IF /\ (p4.dirty \/ p4.drawCommand = None)
                          /\ p4.splatColor # None /\ p4.transformA # None
                          /\ p4.transformB # None /\ p4.splatOrder # None
                       THEN [BuildDrawCommand(p4) EXCEPT !.dirty = FALSE]
                       ELSE p4, LAMBDA p5 :
                    [p5 EXCEPT !.prevViewMatrix = Some(view)]))))))

\* destroy()
Destroy(prim0) ==
  With(Begin(prim0, "destroy", 0), LAMBDA p :
    IF IsDestroyed(p) THEN p
    ELSE [p EXCEPT !.sortWorker = FALSE,
                   !.splatColor = None, !.transformA = None,
                   !.transformB = None, !.splatOrder = None,
                   !.vertexArray = FALSE, !.shaderProgram = FALSE,
                   !.positions = None, !.orderData = None, !.colorData = None,
                   !.transformAData = None, !.transformBData = None,
                   !.texParams = None, !.splatSetFlags = None,
                   !.pendingUpdates = {},
                   !.isDestroyed = TRUE])

(***************************************************************************)
(* StreamLoader.loadStream: the read loop, and the timer continuations.    *)
(***************************************************************************)
\* a catch block that swallows every exception
LoaderCatch_Silent(d) == [d EXCEPT !.pc = "failed"]

\* the catch block of loadStream
LoaderCatch(d) ==
  IF d.aborted THEN [d EXCEPT !.pc = "failed"]
  ELSE Reject([d EXCEPT !.onErrorCalls = @ + 1, !.pc = "failed"])

\* one iteration of the read loop with a chunk (done = false)
LoaderChunk(d, chunk) ==
  With(SgsProcessChunk([d EXCEPT !.receivedLength = @ + Len(chunk), !.thrown = "none"],
                       chunk), LAMBDA d1 :
    IF d1.thrown # "none" THEN LoaderCatch(d1)
    ELSE IF ~d1.parserResolved /\ ~d1.aborted /\ Verification(d1)
      THEN Resolve([d1 EXCEPT !.parserResolved = TRUE])
    ELSE d1)

\* the iteration in which read() reports done, and what follows the loop
LoaderEnd(d) ==
  LET d0 == [d EXCEPT !.thrown = "none"]
  IN  IF ~d0.parserResolved /\ ~Verification(d0)
      THEN LoaderCatch([d0 EXCEPT !.thrown = "VerificationFailed"])
      ELSE [Resolve([d0 EXCEPT !.parserResolved = TRUE])
              EXCEPT !.onCompleteCalls = @ + 1, !.pc = "complete"]

\* a continuation that returns without parsing
TimerFire_Idle(d) == [d EXCEPT !.timers = @ - 1, !.thrown = "none"]

\* a setTimeout continuation of _parseVertices; what it throws nobody catches
TimerFire(d) ==
  With(ParseVertices([d EXCEPT !.timers = @ - 1, !.thrown = "none"]), LAMBDA d1 :
    IF d1.thrown # "none" THEN [d1 EXCEPT !.uncaught = @ + 1] ELSE d1)

ReadChunk ==
  /\ dec.pc = "reading"
  /\ ~dec.aborted
  /\ \E n \in 1..(Len(Body) - dec.receivedLength) :
       \E chunk \in {SubSeq(Body, dec.receivedLength + 1, dec.receivedLength + n)} :
         dec' = LoaderChunk(dec, chunk)
  /\ UNCHANGED <<payload, wk, prim, env>>

ReadDone ==
  /\ dec.pc = "reading"
  /\ ~dec.aborted
  /\ dec.receivedLength = Len(Body)
  /\ dec' = LoaderEnd(dec)
  /\ UNCHANGED <<payload, wk, prim, env>>

RunTimer ==
  /\ dec.timers > 0
  /\ dec' = TimerFire(dec)
  /\ UNCHANGED <<payload, wk, prim, env>>

\* chunk lengths of the loads with cancellation and read failures; the last
\* chunk is what remains of the body
PieceLengths == {19, 61}

\* one iteration of the read loop, the chunk length drawn from PieceLengths
ReadPiece ==
  /\ dec.pc = "reading"
  /\ ~dec.aborted
  /\ \E n \in {k \in PieceLengths \cup {Len(Body) - dec.receivedLength} :
                 k >= 1 /\ k <= Len(Body) - dec.receivedLength} :
       \E chunk \in {SubSeq(Body, dec.receivedLength + 1, dec.receivedLength + n)} :
         dec' = LoaderChunk(dec, chunk)
  /\ UNCHANGED <<payload, wk, prim, env>>

\* the cancel function loadStream resolves with: reader.cancel() makes the
\* pending read() report done, and the parser is cancelled
LoaderCancel(d) == SgsCancel([d EXCEPT !.aborted = TRUE])

\* the application's cancelLoad calls parser.cancel() on the parser it holds
\* from before loadStream is called
ParserCancel ==
  /\ dec' = SgsCancel(dec)
  /\ dec' # dec
  /\ UNCHANGED <<payload, wk, prim, env>>

\* the cancel function is in the caller's hands once the promise resolved
CancelLoad ==
  /\ dec.promise = "resolved"
  /\ dec' = LoaderCancel(dec)
  /\ dec' # dec
  /\ UNCHANGED <<payload, wk, prim, env>>

\* the read loop is left after cancel: no onComplete, nothing is thrown
ReadAbort ==
  /\ dec.pc = "reading"
  /\ dec.aborted
  /\ dec' = [dec EXCEPT !.pc = "aborted"]
  /\ UNCHANGED <<payload, wk, prim, env>>

\* reader.read() rejects
ReadFail ==
  /\ dec.pc = "reading"
  /\ ~dec.aborted
  /\ dec' = LoaderCatch([dec EXCEPT !.thrown = "ReadError"])
  /\ UNCHANGED <<payload, wk, prim, env>>

vars == <<payload, dec, wk, prim, env>>

InitDecoder ==
  /\ payload \in DOMAIN Payloads
  /\ dec = DecInit(BatchSize)
  /\ wk = WorkerInit
  /\ prim = PrimInit
  /\ env = EnvInit

NextDecoder == ReadChunk \/ ReadDone \/ RunTimer

SpecDecoder == InitDecoder /\ [][NextDecoder]_vars

\* the load with cancellation and read failures
NextLoader == ReadPiece \/ ReadDone \/ RunTimer \/ ParserCancel \/ CancelLoad \/ ReadAbort \/ ReadFail

SpecLoader == InitDecoder /\ [][NextLoader]_vars

\* the load of a stream with spherical-harmonics properties
InitColour ==
  /\ payload \in DOMAIN ColourPayloads
  /\ dec = DecInit(BatchSize)
  /\ wk = WorkerInit
  /\ prim = PrimInit
  /\ env = EnvInit

SpecColour == InitColour /\ [][NextLoader]_vars

\* streams of x, y, z records cut at every byte: as long as declared, longer,
\* and shorter
InitRecords ==
  /\ payload \in {"xyz"} \cup DOMAIN TailPayloads
  /\ dec = DecInit(BatchSize)
  /\ wk = WorkerInit
  /\ prim = PrimInit
  /\ env = EnvInit

SpecRecords == InitRecords /\ [][NextDecoder]_vars

\* every stream, loaded with cancellation and read failures; the event loop
\* runs a setTimeout continuation that is due (a timer with delay 0 stays due
\* until it has run)
InitProgress ==
  /\ payload \in DOMAIN Payloads \cup DOMAIN TailPayloads
  /\ dec = DecInit(BatchSize)
  /\ wk = WorkerInit
  /\ prim = PrimInit
  /\ env = EnvInit

SpecProgress == InitProgress /\ [][NextLoader]_vars /\ WF_vars(RunTimer)

(***************************************************************************)
(* The sort worker driven by arbitrary messages: centres and camera poses  *)
(* drawn from small sets, the order buffer handed back after each reply.   *)
(***************************************************************************)
\* most centres in one message
MaxPoints == 3

\* world-space centres and camera poses the messages are drawn from
SortPoints == {<<-1, 0, 0>>, <<0, 0, 0>>, <<1, 0, 0>>, <<2, 1, 0>>}
CentreSets == UNION {[1..n -> SortPoints] : n \in 0..MaxPoints}
CameraPositions == {<<0, 0, 0>>, <<-2, 0, 0>>}
CameraDirections == {<<1, 0, 0>>, <<-1, 0, 0>>, <<0, 1, 0>>}

SortPostCenters ==
  /\ wk.centers = None
  /\ \E centers \in CentreSets, pad \in 0..1 :
       \E message \in {Message(Some(InitialOrder(Len(centers) + pad, Len(centers))),
                               Some(centers), None, None)} :
         wk' = WorkerOnMessage(wk, message)
  /\ UNCHANGED <<payload, dec, prim, env>>

SortPostCamera ==
  /\ \E pos \in CameraPositions, dir \in CameraDirections :
       \E message \in {Message(None, None, Some(pos), Some(dir))} :
         wk' = WorkerOnMessage(wk, message)
  /\ UNCHANGED <<payload, dec, prim, env>>

\* the receiver takes the reply and hands the order buffer back
SortTakeReply ==
  /\ wk.outbox # << >>
  /\ \E message \in {Message(Some(Head(wk.outbox).order), None, None, None)} :
       wk' = WorkerOnMessage([wk EXCEPT !.outbox = Tail(@)], message)
  /\ UNCHANGED <<payload, dec, prim, env>>

InitSort ==
  /\ payload = "xyz"
  /\ dec = DecInit(BatchSize)
  /\ wk = WorkerInit
  /\ prim = PrimInit
  /\ env = EnvInit

NextSort == SortPostCenters \/ SortPostCamera \/ SortTakeReply

SpecSort == InitSort /\ [][NextSort]_vars

(***************************************************************************)
(* The primitive driven through its public methods, the render loop and    *)
(* its sort worker.  env holds the clock (milliseconds) and the number of  *)
(* calls made so far, see EnvInit.                                         *)
(***************************************************************************)
\* most calls of initCount and setSplatData and frames, together, in one
\* behaviour
MaxCalls == 3

\* arguments of initCount and setSplatData
InitCounts == {0, 3, 256}
Indices == {-1, 0, 65, 256}
SplatInputs ==
  { [position |-> <<F32.v1, F32.v2, F32.zero>>,
     scale |-> None, rotation |-> None, opacity |-> None, sh |-> None],
    [position |-> <<F32.m1, F32.v4, F32.v2>>,
     scale |-> Some(<<F32.zero, F32.zero, F32.zero>>),
     rotation |-> Some(<<F32.zero, F32.zero, F32.zero, F32.v1>>),
     opacity |-> Some(F32.zero),
     sh |-> Some([order |-> 0, coeffs |-> <<F32.v1, F32.zero, F32.m1>>])] }

\* camera poses of the frames, the time between two frames, and whether the
\* Cesium build checks the arguments of copyFrom
Views == { [position |-> <<0, 0, -5>>, forward |-> <<0, 0, 1>>],
           [position |-> <<5, 0, 0>>, forward |-> <<-1, 0, 0>>] }
FrameTimes == {16, 1000}
CesiumBuilds == BOOLEAN

\* arguments of setAutoFlushThreshold
Thresholds == {0, 1}

PrimInitCount ==
  /\ env.calls < MaxCalls
  /\ prim' \in {InitCount(prim, totalCount, 128) : totalCount \in InitCounts}
  /\ env' = [env EXCEPT !.calls = @ + 1]
  /\ UNCHANGED <<payload, dec, wk>>

PrimSetSplatData ==
  /\ env.calls < MaxCalls
  /\ prim' \in {SetSplatData(prim, index, data, debug) :
                  index \in Indices, data \in SplatInputs, debug \in CesiumBuilds}
  /\ env' = [env EXCEPT !.calls = @ + 1]
  /\ UNCHANGED <<payload, dec, wk>>

PrimSetAutoFlushThreshold ==
  /\ prim' \in {SetAutoFlushThreshold(prim, threshold) : threshold \in Thresholds}
  /\ UNCHANGED <<payload, dec, wk, env>>

PrimFlushUpdates ==
  /\ prim' \in {FlushUpdates(prim, debug) : debug \in CesiumBuilds}
  /\ UNCHANGED <<payload, dec, wk, env>>

\* one frame; the messages it posts join the worker's queue
PrimUpdate ==
  /\ env.calls < MaxCalls
  /\ \E dt \in FrameTimes :
       \E p \in {Update(prim, view, env.clock + dt, debug) :
                    view \in Views, debug \in CesiumBuilds} :
         /\ prim' = p
         /\ wk' = [wk EXCEPT !.inbox = @ \o p.posted]
         /\ env' = [env EXCEPT !.clock = @ + dt, !.calls = @ + 1]
  /\ UNCHANGED <<payload, dec >>

\* the worker takes the next message
PrimWorkerReceive ==
  /\ wk.inbox # << >>
  /\ ~wk.terminated
  /\ \E message \in {Head(wk.inbox)} :
       wk' = WorkerOnMessage([wk EXCEPT !.inbox = Tail(@)], message)
  /\ UNCHANGED <<payload, dec, prim, env>>

\* a reply of the worker reaches the main side
PrimWorkerReply ==
  /\ wk.outbox # << >>
  /\ \E p \in {OnMessage(prim, Head(wk.outbox), debug) : debug \in CesiumBuilds} :
         /\ prim' = p
         /\ wk' = [wk EXCEPT !.outbox = Tail(@), !.inbox = @ \o p.posted]
  /\ UNCHANGED <<payload, dec, env>>

\* destroy(); worker.terminate() stops the worker and drops its queue
PrimDestroy ==
  /\ prim' = Destroy(prim)
  /\ wk' = IF prim.sortWorker /\ ~prim.isDestroyed
           THEN [wk EXCEPT !.terminated = TRUE, !.inbox = << >>]
           ELSE wk
  /\ UNCHANGED <<payload, dec, env>>

\* what the observer notes of a step of the primitive from p to p1 at time
\* now: a commit has emptied the pending set (a setSplatData call that
\* leaves it empty has committed its own index), or a tick has passed with
\* indices pending
Observe(e, p, p1, now, tick) ==
  With(/\ p1.pendingUpdates = {}
       /\ (p.pendingUpdates # {} \/ (p1.call.op = "setSplatData" /\ ~Thrown(p1))),
       LAMBDA committed :
    [e EXCEPT !.waited = IF p1.pendingUpdates = {} THEN 0 ELSE IF tick THEN @ + 1 ELSE @,
              !.lastWait = IF committed /\ tick THEN e.waited + 1 ELSE @,
              !.lastCommit = IF committed THEN Some(now) ELSE @])

\* a streaming session: at most MaxEdits calls of initCount and setSplatData,
\* made before the LoadTicks-th update tick, and at most MaxTicks update ticks
MaxEdits == 4
LoadTicks == 2
MaxTicks == 11

\* its capacity, its slot indices and the time between two ticks
StreamCounts == {3}
StreamIndices == {0, 1}
TickTimes == {500}

StreamInitCount ==
  /\ env.calls < MaxEdits
  /\ env.ticks < LoadTicks
  /\ prim' \in {InitCount(prim, totalCount, 128) : totalCount \in StreamCounts}
  /\ env' = [env EXCEPT !.calls = @ + 1]
  /\ UNCHANGED <<payload, dec, wk>>

StreamSetSplatData ==
  /\ env.calls < MaxEdits
  /\ env.ticks < LoadTicks
  /\ \E p \in {SetSplatData(prim, index, CHOOSE d \in SplatInputs : d.scale = None, FALSE) :
                  index \in StreamIndices} :
       /\ prim' = p
       /\ env' = Observe([env EXCEPT !.calls = @ + 1], prim, p, env.clock, FALSE)
  /\ UNCHANGED <<payload, dec, wk>>

StreamFlushUpdates ==
  /\ prim.pendingUpdates # {}
  /\ \E p \in {FlushUpdates(prim, FALSE)} :
       /\ prim' = p
       /\ env' = Observe(env, prim, p, env.clock, FALSE)
  /\ UNCHANGED <<payload, dec, wk>>

\* one update tick of a shown primitive, not a pick pass
StreamUpdate ==
  /\ env.ticks < MaxTicks
  /\ \E dt \in TickTimes :
       \E p \in {Update(prim, CHOOSE v \in Views : v.forward = <<0, 0, 1>>, env.clock + dt, FALSE)} :
         /\ prim' = p
         /\ wk' = [wk EXCEPT !.inbox = @ \o p.posted]
         /\ env' = Observe([env EXCEPT !.clock = @ + dt, !.ticks = @ + 1],
                           prim, p, env.clock + dt, TRUE)
  /\ UNCHANGED <<payload, dec>>

NextStream ==
  \/ StreamInitCount \/ StreamSetSplatData \/ StreamFlushUpdates \/ StreamUpdate
  \/ PrimWorkerReceive \/ PrimWorkerReply

\* what the observer of the dispatches notes of a step of the primitive from
\* p to p1: centres posted to the worker are current until a commit with
\* validCount > 0 follows (update() dispatches before it commits)
Noted(e, p, p1) ==
  With(/\ p1.pendingUpdates = {} /\ ~Thrown(p1) /\ p1.validCount > 0
       /\ (p.pendingUpdates # {} \/ p1.call.op = "setSplatData"),
       LAMBDA committed :
    [e EXCEPT !.stale = IF committed THEN TRUE
                        ELSE IF \E i \in 1..Len(p1.posted) : p1.posted[i].centers # None THEN FALSE
                        ELSE @])

\* a session of dispatches: at most MaxSetups calls of the methods, made
\* before the SetupFrames-th frame, and at most MaxFrames frames
MaxSetups == 4
SetupFrames == 2
MaxFrames == 11

\* capacities, slot indices, throttle settings, cameras and frame times
DispatchCounts == {3}
DispatchIndices == {0}
SortThrottles == {1000}
DispatchViews == { [position |-> <<0, 0, -5>>, forward |-> <<0, 0, 1>>],
                   [position |-> <<0, 0, -4>>, forward |-> <<0, 0, 1>>],
                   [position |-> <<0, 0, 0>>, forward |-> <<0, 0, 1>>] }
DispatchTimes == {30}

DispatchSetup == env.calls < MaxSetups /\ env.ticks < SetupFrames

DispatchInitCount ==
  /\ DispatchSetup
  /\ \E p \in {InitCount(prim, totalCount, 128) : totalCount \in DispatchCounts} :
       /\ prim' = p
       /\ env' = Noted([env EXCEPT !.calls = @ + 1], prim, p)
  /\ UNCHANGED <<payload, dec, wk>>

DispatchSetSplatData ==
  /\ DispatchSetup
  /\ \E p \in {SetSplatData(prim, index, CHOOSE d \in SplatInputs : d.scale = None, debug) :
                  index \in DispatchIndices, debug \in CesiumBuilds} :
       /\ prim' = p
       /\ env' = Noted([env EXCEPT !.calls = @ + 1], prim, p)
  /\ UNCHANGED <<payload, dec, wk>>

DispatchFlushUpdates ==
  /\ DispatchSetup
  /\ prim.pendingUpdates # {}
  /\ \E p \in {FlushUpdates(prim, debug) : debug \in CesiumBuilds} :
       /\ prim' = p
       /\ env' = Noted([env EXCEPT !.calls = @ + 1], prim, p)
  /\ UNCHANGED <<payload, dec, wk>>

DispatchSetSortThrottle ==
  /\ DispatchSetup
  /\ \E p \in {SetSortThrottle(prim, ms) : ms \in SortThrottles} :
       /\ prim' = p
       /\ env' = Noted([env EXCEPT !.calls = @ + 1], prim, p)
  /\ UNCHANGED <<payload, dec, wk>>

DispatchSetAdaptiveSorting ==
  /\ DispatchSetup
  /\ \E p \in {SetAdaptiveSorting(prim, enabled) : enabled \in BOOLEAN} :
       /\ prim' = p
       /\ env' = Noted([env EXCEPT !.calls = @ + 1], prim, p)
  /\ UNCHANGED <<payload, dec, wk>>

\* one frame of a shown primitive, not a pick pass
DispatchUpdate ==
  /\ env.ticks < MaxFrames
  /\ \E dt \in DispatchTimes, view \in DispatchViews :
       \E p \in {Update(prim, view, env.clock + dt, debug) : debug \in CesiumBuilds} :
         /\ prim' = p
         /\ wk' = [wk EXCEPT !.inbox = @ \o p.posted]
         /\ env' = Noted([env EXCEPT !.clock = @ + dt, !.ticks = @ + 1, !.view = Some(view)],
                         prim, p)
  /\ UNCHANGED <<payload, dec>>

NextDispatch ==
  \/ DispatchInitCount \/ DispatchSetSplatData \/ DispatchFlushUpdates
  \/ DispatchSetSortThrottle \/ DispatchSetAdaptiveSorting
  \/ DispatchUpdate \/ PrimWorkerReceive \/ PrimWorkerReply

\* the first frames of a session whose capacity is set again
ResizeCounts == {3, 256}

ResizeInitCount ==
  /\ DispatchSetup
  /\ \E p \in {InitCount(prim, totalCount, 128) : totalCount \in ResizeCounts} :
       /\ prim' = p
       /\ env' = Noted([env EXCEPT !.calls = @ + 1], prim, p)
  /\ UNCHANGED <<payload, dec, wk>>

ResizeUpdate == env.ticks < SetupFrames /\ DispatchUpdate

NextResize ==
  \/ ResizeInitCount \/ DispatchSetSplatData \/ ResizeUpdate
  \/ PrimWorkerReceive \/ PrimWorkerReply

\* a session that streams five records in index order while frames are drawn
\* from two cameras: seen along +z the records lie in the order 0 1 2 3 4,
\* seen along +x in the order 0 3 2 1 4
SampleCount == 5
SamplePositions ==
  << <<F32.v8, F32.v4, F32.v8>>, <<F32.v2, F32.zero, F32.v6>>,
     <<F32.v4, F32.v8, F32.v4>>, <<F32.v6, F32.v2, F32.v2>>,
     <<F32.zero, F32.v6, F32.zero>> >>
SampleViews == { [position |-> <<0, 0, -1>>, forward |-> <<0, 0, 1>>],
                 [position |-> <<-2, 0, 0>>, forward |-> <<1, 0, 0>>] }
\* the cameras of the session that sets the capacity once: along +x, and
\* along +y, where the records lie in the order 1 3 0 4 2
OrderedViews == { [position |-> <<-2, 0, 0>>, forward |-> <<1, 0, 0>>],
                  [position |-> <<0, -3, 0>>, forward |-> <<0, 1, 0>>] }
SampleSetups == SampleCount + 2

SampleInitCount ==
  /\ env.calls < SampleSetups /\ env.ticks < SetupFrames
  /\ prim' = InitCount(prim, SampleCount, 128)
  /\ env' = [env EXCEPT !.calls = @ + 1]
  /\ UNCHANGED <<payload, dec, wk>>

\* the next record of the stream
SampleSetSplatData ==
  /\ env.calls < SampleSetups /\ env.ticks < SetupFrames
  /\ prim.totalCount = SampleCount /\ prim.validCount < SampleCount
  /\ \E p \in {SetSplatData(prim, prim.validCount,
                             [position |-> SamplePositions[prim.validCount + 1],
                              scale |-> None, rotation |-> None, opacity |-> None,
                              sh |-> None], debug) : debug \in CesiumBuilds} :
       prim' = p
  /\ env' = [env EXCEPT !.calls = @ + 1]
  /\ UNCHANGED <<payload, dec, wk>>

\* the commit the application makes (main.js calls flushUpdates())
SampleFlushUpdates ==
  /\ env.calls < SampleSetups /\ env.ticks < SetupFrames
  /\ prim.pendingUpdates # {}
  /\ prim' \in {FlushUpdates(prim, debug) : debug \in CesiumBuilds}
  /\ env' = [env EXCEPT !.calls = @ + 1]
  /\ UNCHANGED <<payload, dec, wk>>

\* a frame drawn from one of the cameras `views`
SampleFrame(views) ==
  /\ env.ticks < MaxFrames
  /\ \E dt \in DispatchTimes, view \in views :
       \E p \in {Update(prim, view, env.clock + dt, debug) : debug \in CesiumBuilds} :
         /\ prim' = p
         /\ wk' = [wk EXCEPT !.inbox = @ \o p.posted]
         /\ env' = [env EXCEPT !.clock = @ + dt, !.ticks = @ + 1, !.view = Some(view)]
  /\ UNCHANGED <<payload, dec>>

SampleUpdate == SampleFrame(SampleViews)

OrderedUpdate == SampleFrame(OrderedViews)

NextSample ==
  \/ SampleInitCount \/ SampleSetSplatData \/ SampleUpdate
  \/ PrimWorkerReceive \/ PrimWorkerReply

\* the same session with the capacity set once
SampleFirstInitCount == prim.totalCount = 0 /\ SampleInitCount

NextOrdered ==
  \/ SampleFirstInitCount \/ SampleSetSplatData \/ SampleFlushUpdates \/ OrderedUpdate
  \/ PrimWorkerReceive \/ PrimWorkerReply

\* a session of frames without end: the application sets flushFrameLimit,
\* streams records in index order and draws frames from one camera
FrameLimits == {1, 5, 10, 11}
TickView == [position |-> <<0, 0, -1>>, forward |-> <<0, 0, 1>>]

\* lastTimeStamp and lastSentTime are read only in differences with the time
\* of the frame (lines 678, 704, 1395); they are kept relative to the frame
\* just drawn, and an age beyond flushInterval is kept as flushInterval
SinceFrame(p, now) ==
  [p EXCEPT !.lastTimeStamp = @ - now,
            !.lastSentTime = Max(@ - now, -p.flushInterval)]

TickInitCount ==
  /\ env.calls < MaxSetups
  /\ prim.totalCount = 0
  /\ prim' = InitCount(prim, SampleCount, 128)
  /\ env' = [env EXCEPT !.calls = @ + 1]
  /\ UNCHANGED <<payload, dec, wk>>

TickSetSplatData ==
  /\ env.calls < MaxSetups
  /\ prim.totalCount = SampleCount /\ prim.validCount < SampleCount
  /\ \E p \in {SetSplatData(prim, prim.validCount,
                             [position |-> SamplePositions[prim.validCount + 1],
                              scale |-> None, rotation |-> None, opacity |-> None,
                              sh |-> None], debug) : debug \in CesiumBuilds} :
       prim' = p
  /\ env' = [env EXCEPT !.calls = @ + 1]
  /\ UNCHANGED <<payload, dec, wk>>

\* a frame; env.ticks is the parity of the number of frames drawn
TickUpdate ==
  /\ \E dt \in TickTimes :
       \E p \in {SinceFrame(Update(prim, TickView, dt, debug), dt) : debug \in CesiumBuilds} :
         /\ prim' = p
         /\ wk' = [wk EXCEPT !.inbox = @ \o p.posted]
         /\ env' = [env EXCEPT !.ticks = (@ + 1) % 2, !.view = Some(TickView)]
  /\ UNCHANGED <<payload, dec>>

NextTicks ==
  \/ TickInitCount \/ TickSetSplatData \/ TickUpdate
  \/ PrimWorkerReceive \/ PrimWorkerReply

\* a session on a grid of 64 x 4 slots: records written at three corners of
\* the grid, commits by the application and frames
GridCount == 256
GridIndices == {0, 63, 192}
GridView == [position |-> <<0, 0, -5>>, forward |-> <<0, 0, 1>>]

GridInitCount ==
  /\ env.calls < MaxSetups
  /\ prim.totalCount = 0
  /\ prim' = InitCount(prim, GridCount, 128)
  /\ env' = [env EXCEPT !.calls = @ + 1]
  /\ UNCHANGED <<payload, dec, wk>>

GridSetSplatData ==
  /\ env.calls < MaxSetups
  /\ prim' \in {SetSplatData(prim, index, data, debug) :
                  index \in GridIndices, data \in SplatInputs, debug \in CesiumBuilds}
  /\ env' = [env EXCEPT !.calls = @ + 1]
  /\ UNCHANGED <<payload, dec, wk>>

GridFlushUpdates ==
  /\ env.calls < MaxSetups
  /\ prim' \in {FlushUpdates(prim, debug) : debug \in CesiumBuilds}
  /\ env' = [env EXCEPT !.calls = @ + 1]
  /\ UNCHANGED <<payload, dec, wk>>

GridUpdate ==
  /\ env.ticks < SetupFrames
  /\ \E dt \in DispatchTimes :
       \E p \in {Update(prim, GridView, env.clock + dt, debug) : debug \in CesiumBuilds} :
         /\ prim' = p
         /\ wk' = [wk EXCEPT !.inbox = @ \o p.posted]
         /\ env' = [env EXCEPT !.clock = @ + dt, !.ticks = @ + 1]
  /\ UNCHANGED <<payload, dec>>

NextGrid ==
  \/ GridInitCount \/ GridSetSplatData \/ GridFlushUpdates \/ GridUpdate
  \/ PrimWorkerReceive \/ PrimWorkerReply

InitPrimitive ==
  /\ payload = "xyz"
  /\ dec = DecInit(BatchSize)
  /\ wk = WorkerInit
  /\ prim = PrimInit
  /\ env = EnvInit

NextPrimitive ==
  \/ PrimInitCount \/ PrimSetSplatData \/ PrimFlushUpdates \/ PrimUpdate
  \/ PrimWorkerReceive \/ PrimWorkerReply \/ PrimDestroy

SpecPrimitive == InitPrimitive /\ [][NextPrimitive]_vars

\* the same with the auto-flush threshold configured at any time
NextConfigured == NextPrimitive \/ PrimSetAutoFlushThreshold

SpecConfigured == InitPrimitive /\ [][NextConfigured]_vars

\* a streaming session in front of a render loop
SpecStream == InitPrimitive /\ [][NextStream]_vars

\* the dispatches of a session to the sort worker
SpecDispatch == InitPrimitive /\ [][NextDispatch]_vars

\* the sort worker of a session whose capacity is set again
SpecResize == InitPrimitive /\ [][NextResize]_vars

\* the session of five records
SpecSample == InitPrimitive /\ [][NextSample]_vars

\* the session of five records, the capacity set once
SpecOrdered == InitPrimitive /\ [][NextOrdered]_vars

\* the frames without end: the render loop draws frame after frame
InitTicks ==
  /\ payload = "xyz"
  /\ dec = DecInit(BatchSize)
  /\ wk = WorkerInit
  /\ prim \in {[PrimInit EXCEPT !.flushFrameLimit = limit] : limit \in FrameLimits}
  /\ env = EnvInit

SpecTicks == InitTicks /\ [][NextTicks]_vars /\ WF_vars(TickUpdate)

\* the session on the grid of 64 x 4 slots
SpecGrid == InitPrimitive /\ [][NextGrid]_vars

\* C14: after a setSplatData call that returned, the number of pending
\* indices is at most the auto-flush threshold.
C14_PendingWithinThreshold ==
  (prim.call.op = "setSplatData" /\ ~Thrown(prim))
    => GetStreamingStats(prim).pendingUpdates <= prim.autoFlushThreshold

\* C17: the statistics satisfy pendingUpdates <= validCount <= totalCount in
\* every state.
C17_StatsOrdered ==
  /\ GetStreamingStats(prim).pendingUpdates <= GetStreamingStats(prim).validCount
  /\ GetStreamingStats(prim).validCount <= GetStreamingStats(prim).totalCount

\* C18: while the order buffer exists and validCount > 0, every entry of the
\* order buffer at a position >= validCount is the index of a slot whose
\* flag is set.
C18_TailHoldsValidIndex ==
  (prim.orderData # None /\ prim.splatSetFlags # None /\ prim.validCount > 0) =>
    \A i \in prim.validCount..(prim.orderData[1].length - 1) :
      /\ InArray(prim.splatSetFlags[1], Get(prim.orderData[1], i))
      /\ Get(prim.splatSetFlags[1], Get(prim.orderData[1], i))

\* C15: the pending set never stays non-empty through more than
\* flushFrameLimit ticks without being committed: the tick after those
\* commits it, so an index is committed by the (flushFrameLimit + 1)-th tick
\* after it was placed at the latest.
C15_FlushWithinFrameLimit ==
  /\ env.waited <= prim.flushFrameLimit
  /\ env.lastWait <= prim.flushFrameLimit + 1

\* an index was pending through flushFrameLimit ticks and the next tick
\* committed it
C15_Witness ==
  /\ prim.call.op = "update"
  /\ prim.pendingUpdates = {}
  /\ env.lastWait = prim.flushFrameLimit + 1
  /\ env.lastCommit = Some(env.clock)

\* C16: an update tick at which the pending set is non-empty and at least
\* flushInterval milliseconds have passed since the last commit commits the
\* pending set.
C16_FlushWithinInterval ==
  [][(/\ env'.ticks = env.ticks + 1
      /\ prim.pendingUpdates # {}
      /\ env.lastCommit # None
      /\ env'.clock - env.lastCommit[1] >= prim.flushInterval)
     => prim'.pendingUpdates = {}]_vars

\* C19: a handled worker reply sets the draw count to min(validCount, count
\* of the reply), not below 0; once a reply has been handled no step other
\* than a reply or initCount (update ticks, setSplatData and flushUpdates in
\* particular) changes the draw count; and the draw count, texParams[0]
\* included, is at most validCount in every state.
C19_DrawCountIsTrimCount ==
  /\ [][(PrimWorkerReply /\ ~Thrown(prim'))
          => /\ prim'.workerHasReturned
             /\ TexParamsUniform(prim') =
                  Max(0, Min(prim'.validCount, Head(wk.outbox).count))]_vars
  /\ [][(prim.workerHasReturned /\ ~PrimWorkerReply /\ ~StreamInitCount)
          => TexParamsUniform(prim') = TexParamsUniform(prim)]_vars
  /\ [](prim.texParams # None =>
          /\ prim.texParams[1][1] <= prim.validCount
          /\ TexParamsUniform(prim) <= prim.validCount)

\* a reply counted one point, a second slot was set, and a later tick left
\* the draw count at 1
C19_Witness ==
  /\ prim.call.op = "update"
  /\ prim.workerHasReturned
  /\ prim.validCount = 2
  /\ prim.texParams = Some(<<1, 64, 0, 1>>)
  /\ ~prim.texParamDirty

\* the order buffers in flight to the worker, and those held by the worker,
\* in flight to it and in flight to the main side
OrdersSent(w) == Cardinality({i \in 1..Len(w.inbox) : w.inbox[i].order # None})
OrderBuffers(w) == (IF w.order # None THEN 1 ELSE 0) + OrdersSent(w) + Len(w.outbox)

\* C21: from the first dispatch until teardown exactly one order buffer
\* exists across the worker and the two directions of flight; a reply is
\* produced only by the worker taking a message while it holds an order
\* buffer (or receives one with that message), and the worker holds none
\* after the reply; an order buffer is sent to the worker only with the first
\* dispatch or by the handler of a reply.
C21_OneOrderBuffer ==
  /\ [](prim.sortWorker => OrderBuffers(wk) = 1)
  /\ [][Len(wk'.outbox) > Len(wk.outbox)
          => /\ PrimWorkerReceive
             /\ (wk.order # None \/ Head(wk.inbox).order # None)
             /\ wk'.order = None
             /\ Len(wk'.outbox) = Len(wk.outbox) + 1]_vars
  /\ [][OrdersSent(wk') > OrdersSent(wk)
          => \/ (~prim.sortWorker /\ prim'.sortWorker)
             \/ (PrimWorkerReply /\ Len(wk'.outbox) = Len(wk.outbox) - 1)]_vars

\* a message that carries the camera pose of `view` and nothing else
CameraOnly(message, view) ==
  /\ message.order = None /\ message.centers = None
  /\ message.cameraPosition = Some(view.position)
  /\ message.cameraDirection = Some([a \in 1..3 |-> -view.forward[a]])

\* C22: a frame that dispatches posts centres exactly when it creates the
\* worker or a commit with validCount > 0 has happened since centres were
\* last posted; the centres message then comes first and the camera pose
\* second, and every other dispatch posts the camera pose alone; no step
\* other than a frame posts centres.
C22_CentresOncePerEpoch ==
  /\ [][(env'.ticks = env.ticks + 1 /\ prim'.posted # << >>)
          => IF ~prim.sortWorker \/ env.stale
             THEN /\ Len(prim'.posted) = 2
                  /\ prim'.posted[1].centers # None
                  /\ prim'.posted[1].cameraPosition = None
                  /\ prim'.posted[1].order # None <=> ~prim.sortWorker
                  /\ CameraOnly(prim'.posted[2], env'.view[1])
             ELSE /\ Len(prim'.posted) = 1
                  /\ CameraOnly(prim'.posted[1], env'.view[1])]_vars
  /\ [][(env'.ticks = env.ticks /\ prim' # prim)
          => \A i \in 1..Len(prim'.posted) : prim'.posted[i].centers = None]_vars

\* a frame has posted centres to the worker it already had, then the camera
\* pose
C22_Witness ==
  /\ prim.call.op = "update"
  /\ Len(prim.posted) = 2
  /\ prim.posted[1].order = None
  /\ prim.posted[1].centers # None
  /\ prim.posted[2].cameraPosition # None

\* what destroy() leaves: no worker, no texture, no CPU buffer, nothing pending
Released(p) ==
  /\ IsDestroyed(p)
  /\ ~p.sortWorker
  /\ p.splatColor = None /\ p.transformA = None /\ p.transformB = None /\ p.splatOrder = None
  /\ p.positions = None /\ p.orderData = None /\ p.colorData = None
  /\ p.transformAData = None /\ p.transformBData = None
  /\ p.texParams = None /\ p.splatSetFlags = None
  /\ p.pendingUpdates = {}

\* C23 as stated: destroy() terminates the worker if there is one and
\* releases the textures, the CPU buffers and the pending set, whatever is in
\* flight; afterwards isDestroyed() is true, initCount, setSplatData and
\* flushUpdates throw and change nothing, update() changes no field of the
\* primitive and posts nothing, and a second destroy() changes nothing.
C23_DestroyReleasesAll ==
  /\ [][PrimDestroy => IF IsDestroyed(prim)
                       THEN Object(prim') = Object(prim) /\ wk' = wk
                       ELSE /\ Released(prim')
                            /\ (prim.sortWorker => wk'.terminated /\ wk'.inbox = << >>)
                            /\ wk'.outbox = wk.outbox]_vars
  /\ [][(IsDestroyed(prim) /\ (PrimInitCount \/ PrimSetSplatData \/ PrimFlushUpdates))
          => Thrown(prim') /\ Object(prim') = Object(prim)]_vars
  /\ [][(IsDestroyed(prim) /\ PrimUpdate)
          => /\ [Object(prim') EXCEPT !.renderRequested = prim.renderRequested] = Object(prim)
             /\ prim'.posted = << >>
             /\ ~Thrown(prim')]_vars

\* C23 with the one field update() does write: on a destroyed primitive
\* update() records the time of the call in lastTimeStamp and changes
\* nothing else; the rest as stated.
C23_DestroyReleasesAllButTime ==
  /\ [][PrimDestroy => IF IsDestroyed(prim)
                       THEN Object(prim') = Object(prim) /\ wk' = wk
                       ELSE /\ Released(prim')
                            /\ (prim.sortWorker => wk'.terminated /\ wk'.inbox = << >>)
                            /\ wk'.outbox = wk.outbox]_vars
  /\ [][(IsDestroyed(prim) /\ (PrimInitCount \/ PrimSetSplatData \/ PrimFlushUpdates))
          => Thrown(prim') /\ Object(prim') = Object(prim)]_vars
  /\ [][(IsDestroyed(prim) /\ PrimUpdate)
          => /\ [Object(prim') EXCEPT !.renderRequested = prim.renderRequested,
                                      !.lastTimeStamp = prim.lastTimeStamp] = Object(prim)
             /\ prim'.lastTimeStamp = env'.clock
             /\ prim'.posted = << >>
             /\ ~Thrown(prim')]_vars

\* destroy() ran while a reply of the worker was in flight, and a method
\* called afterwards threw
C23_Witness ==
  /\ IsDestroyed(prim)
  /\ wk.terminated
  /\ wk.outbox # << >>
  /\ prim.call.op = "flushUpdates"
  /\ Thrown(prim)

\* C24: a reply of the worker handled after destroy() changes no field of
\* the primitive, posts no message to the worker and throws nothing.
C24_LateReplyDropped ==
  [][(IsDestroyed(prim) /\ PrimWorkerReply)
       => /\ Object(prim') = Object(prim)
          /\ prim'.posted = << >>
          /\ wk'.inbox = wk.inbox
          /\ ~Thrown(prim')]_vars

\* the step is a frame in which update() calls _scheduleOrder, after a
\* dispatch has been made, with a camera whose hash is the recorded one
SameHashScheduled ==
  /\ env'.ticks = env.ticks + 1
  /\ ~IsDestroyed(prim) /\ prim.show
  /\ prim.validCount > 0 /\ prim.frameCount % 10 = 0
  /\ prim.sortWorker
  /\ ViewHash(env'.view[1]) = prim.lastViewMatrixHash

\* the frame posts nothing and leaves the recorded hash and time
DispatchSkipped ==
  /\ prim'.posted = << >>
  /\ wk'.inbox = wk.inbox
  /\ prim'.lastViewMatrixHash = prim.lastViewMatrixHash
  /\ prim'.lastSentTime = prim.lastSentTime

\* C25 as stated: whenever _scheduleOrder is invoked with a camera whose hash
\* equals the hash recorded at the last dispatch, nothing is posted and the
\* recorded hash and time stay.
C25_SameHashSkipped == [][SameHashScheduled => DispatchSkipped]_vars

\* C25 with its missing condition: the same, provided no commit with
\* validCount > 0 has happened since centres were last posted.
C25_SameHashSkippedUnlessStale ==
  [][(SameHashScheduled /\ ~env.stale) => DispatchSkipped]_vars

\* the eleventh frame called _scheduleOrder with the camera of the first
\* dispatch and posted nothing
C25_Witness ==
  /\ prim.call.op = "update"
  /\ env.ticks = 11 /\ prim.frameCount = 1
  /\ prim.validCount > 0 /\ prim.sortWorker /\ prim.centersSent
  /\ prim.lastSentTime = 30
  /\ ViewHash(env.view[1]) = prim.lastViewMatrixHash
  /\ prim.posted = << >>

\* the interval C26 states, in tenths of a millisecond, for a call of
\* _scheduleOrder with camera hash `hash`, elapsedMs after the last dispatch:
\* the speed is |hash - lastHash| / max(elapsed seconds, 0.001)
StatedInterval(p, hash, elapsedMs) ==
  LET hashDelta == IF hash >= p.lastViewMatrixHash THEN hash - p.lastViewMatrixHash
                   ELSE p.lastViewMatrixHash - hash
      \* speed < bound, with speed = hashDelta * 1000 / max(elapsedMs, 1)
      slower(bound) == hashDelta * 1000 < bound * Max(elapsedMs, 1)
  IN  IF ~p.adaptiveSorting \/ slower(1000) THEN 10 * p.minIntervalMs
      ELSE IF slower(10000) THEN 5 * p.minIntervalMs
      ELSE 2 * p.minIntervalMs

\* C26: a frame dispatches only if the time since the previous dispatch is
\* at least the stated interval, hence at least 0.2 x minIntervalMs
\* (minIntervalMs with adaptive sorting off); the recorded time and hash
\* change only in a frame that dispatches, which records its own time and the
\* hash of its camera.
C26_DispatchThrottled ==
  /\ [][(env'.ticks = env.ticks + 1 /\ prim'.posted # << >>)
          => /\ 10 * (env'.clock - prim.lastSentTime)
                  >= StatedInterval(prim, ViewHash(env'.view[1]), env'.clock - prim.lastSentTime)
             /\ 10 * (env'.clock - prim.lastSentTime)
                  >= (IF prim.adaptiveSorting THEN 2 ELSE 10) * prim.minIntervalMs
             /\ prim'.lastSentTime = env'.clock
             /\ prim'.lastViewMatrixHash = ViewHash(env'.view[1])]_vars
  /\ [][(prim'.lastSentTime # prim.lastSentTime
           \/ prim'.lastViewMatrixHash # prim.lastViewMatrixHash)
          => (env'.ticks = env.ticks + 1 /\ prim'.posted # << >>)]_vars

\* with a throttle of 1000 ms a second dispatch left 300 ms after the first
\* one
C26_Witness ==
  /\ prim.call.op = "update"
  /\ prim.minIntervalMs = 1000 /\ prim.adaptiveSorting
  /\ env.ticks = 11 /\ env.clock = 330
  /\ prim.lastSentTime = env.clock
  /\ Len(prim.posted) = 1

\* the number of entries the reply handler looks at: Math.min(_validCount,
\* indices.length)
ReplyCount(p, data) == Min(p.validCount, ArrayLen(data.order))

\* the positions the comparison is said to sample
Sampled(validCount) ==
  {0, validCount - 1, validCount \div 2}
    \cup (IF validCount > 10 THEN {validCount \div 4, (3 * validCount) \div 4} ELSE {})

\* indices[idx] of the reply (undefined outside the array)
At(order, idx) == IF idx \in DOMAIN order THEN order[idx] ELSE UNDEF

\* the order buffer has the grid size and the reply equals it at every
\* sampled position
SampleEqual(p, data) ==
  /\ p.orderData # None
  /\ p.orderData[1].length = p.size.x * p.size.y
  /\ \A idx \in Sampled(ReplyCount(p, data)) : Get(p.orderData[1], idx) = At(data.order, idx)

\* the transfers of the last handler that went to the order texture
OrderTransfers(p) == {i \in 1..Len(p.transfers) : p.transfers[i].texture = "splatOrder"}

\* C31 as stated: a reply that equals the order buffer (of grid size) at every
\* sampled position leaves the order buffer unchanged and issues no transfer
\* to the order texture.
C31_EqualSamplesNoUpdate ==
  [][(PrimWorkerReply /\ SampleEqual(prim, Head(wk.outbox)))
       => (prim'.orderData = prim.orderData /\ OrderTransfers(prim') = {})]_vars

\* C31: a reply that equals the order buffer (of grid size) at every sampled
\* position leaves the order buffer unchanged; it issues no transfer to the
\* order texture when the number of entries compared, the smaller of
\* validCount and the reply's length, is at least 1.
C31_EqualSamplesNoUpdateWhenValid ==
  [][(PrimWorkerReply /\ SampleEqual(prim, Head(wk.outbox)))
       => /\ prim'.orderData = prim.orderData
          /\ ReplyCount(prim, Head(wk.outbox)) > 0 => OrderTransfers(prim') = {}]_vars

\* five slots are valid, the textures exist, and a reply that equals the
\* order buffer at positions 0, 2 and 4 has been handled without a transfer
C31_Witness ==
  /\ prim.call.op = "onmessage"
  /\ ~Thrown(prim)
  /\ prim.validCount = SampleCount
  /\ prim.splatOrder # None
  /\ prim.transfers = << >>
  /\ Len(prim.posted) = 1
  /\ prim.posted[1].order # None
  /\ \A idx \in Sampled(SampleCount) :
       prim.posted[1].order[1][idx] = Get(prim.orderData[1], idx)

\* C32: when the handler of a reply leaves the order buffer alone and issues
\* no transfer although the order texture exists, the first validCount
\* entries of the reply are the first validCount entries of the order buffer.
C32_SkippedOnlyIfEquivalent ==
  [][(/\ PrimWorkerReply
      /\ prim.splatOrder # None /\ prim.context
      /\ prim.orderData # None
      /\ prim'.orderData = prim.orderData
      /\ OrderTransfers(prim') = {}
      /\ ~Thrown(prim'))
       => \A i \in 0..(ReplyCount(prim, Head(wk.outbox)) - 1) :
            Head(wk.outbox).order[i] = Get(prim.orderData[1], i)]_vars

\* the bounding rectangle of a set of slots on a grid w slots wide
Rect(pending, w) ==
  LET rows == {index \div w : index \in pending}
      cols == {index % w : index \in pending}
  IN  [x |-> MinOf(cols), y |-> MinOf(rows),
       width |-> MaxOf(cols) - MinOf(cols) + 1, height |-> MaxOf(rows) - MinOf(rows) + 1]

PackedTextures == {"splatColor", "transformA", "transformB", "splatOrder"}

\* the four textures exist
TexturesCreated(p) ==
  p.context /\ \A name \in PackedTextures : p[name] # None

\* the transfers of the last handler, as a set
TransfersOf(p) == {p.transfers[i] : i \in 1..Len(p.transfers)}

\* one copy per texture of the rectangle r
CopiesOf(r) == {Transfer(name, "copy", r.x, r.y, r.width, r.height) : name \in PackedTextures}

\* flushUpdates() is called with the textures created and slots pending
FlushOfPending ==
  /\ GridFlushUpdates
  /\ TexturesCreated(prim)
  /\ prim.pendingUpdates # {}

\* C33 as stated: such a flushUpdates() copies exactly the bounding rectangle
\* of the pending slots to the four textures if and only if the rectangle's
\* area is below half the grid area and the rectangle spans neither the full
\* width nor the full height of the grid; otherwise it copies the whole grid
\* to the four textures.
C33_PartialIffSmallAndInside ==
  [][FlushOfPending =>
       With(Rect(prim.pendingUpdates, prim.size.x), LAMBDA r :
         TransfersOf(prim') =
           IF /\ 2 * r.width * r.height < prim.size.x * prim.size.y
              /\ r.width < prim.size.x /\ r.height < prim.size.y
           THEN CopiesOf(r)
           ELSE CopiesOf([x |-> 0, y |-> 0, width |-> prim.size.x, height |-> prim.size.y]))]_vars

\* C33: such a flushUpdates() copies exactly the bounding rectangle of the
\* pending slots to the four textures if and only if the rectangle's area is
\* below half the grid area (it may span the full width or the full height,
\* never both); otherwise it copies the whole grid to the four textures.
C33_PartialIffSmall ==
  [][FlushOfPending =>
       With(Rect(prim.pendingUpdates, prim.size.x), LAMBDA r :
         /\ Len(prim'.transfers) = 4
         /\ TransfersOf(prim') =
              IF 2 * r.width * r.height < prim.size.x * prim.size.y
              THEN CopiesOf(r)
              ELSE CopiesOf([x |-> 0, y |-> 0, width |-> prim.size.x, height |-> prim.size.y]))]_vars

\* slots 0 and 63 (the first row, from the first to the last column) were
\* pending with the textures created, and flushUpdates() copied the first row
C33_Witness ==
  /\ prim.call.op = "flushUpdates"
  /\ prim.pendingUpdates = {}
  /\ TransfersOf(prim) = CopiesOf([x |-> 0, y |-> 0, width |-> 64, height |-> 1])

\* the texel of slot i
Texel(tex, i) == IF i \in DOMAIN tex.at THEN tex.at[i] ELSE tex.zero

\* the packed buffers and their textures
Mirrors ==
  {<<"colorData", "splatColor">>, <<"transformAData", "transformA">>,
   <<"transformBData", "transformB">>}

\* the slots at which a texture differs from its buffer
Unsynced(p, m) ==
  {i \in DOMAIN p[m[1]][1].at \cup DOMAIN p[m[2]][1].at :
     Texel(p[m[2]][1], i) # Get(p[m[1]][1], i)}

\* C34: once the textures exist (the capacity being set once), the colour,
\* TransformA and TransformB textures differ from the packed buffers only at
\* pending slots; flushUpdates() returns with the pending set empty, so the
\* textures then equal the buffers at every slot, after a partial as after a
\* full commit; and every rectangle transferred lies inside the grid.
C34_MirrorSynchronised ==
  /\ \A m \in Mirrors :
       prim[m[2]] # None => Unsynced(prim, m) \subseteq prim.pendingUpdates
  /\ (prim.call.op = "flushUpdates" /\ ~Thrown(prim)) => prim.pendingUpdates = {}
  /\ \A t \in TransfersOf(prim) :
       /\ t.x >= 0 /\ t.y >= 0
       /\ t.x + t.width <= prim.size.x /\ t.y + t.height <= prim.size.y

\* the record of slot 63 was written after the textures were created and
\* flushUpdates() copied the one texel: the colour texture holds its colour
C34_Witness ==
  /\ prim.call.op = "flushUpdates"
  /\ prim.pendingUpdates = {}
  /\ TransfersOf(prim) = CopiesOf([x |-> 63, y |-> 0, width |-> 1, height |-> 1])
  /\ Get(prim.colorData[1], 63) # <<0, 0, 0, 0>>
  /\ Texel(prim.splatColor[1], 63) = Get(prim.colorData[1], 63)

\* the per-slot buffers setSplatData writes
SlotBuffers == {"colorData", "transformAData", "transformBData", "positions"}

\* buffer `name` is the same before and after, except at slot i
SameButAt(p, q, name, i) ==
  /\ p[name][1].length = q[name][1].length
  /\ \A j \in (DOMAIN p[name][1].at \cup DOMAIN q[name][1].at) \ {i} :
       Get(p[name][1], j) = Get(q[name][1], j)

\* the object without the fields setSplatData is said to touch: the four
\* per-slot buffers, the valid flags and their count, the pending set, what a
\* commit changes (textures, the flags _centersSent and _dirty), the private
\* flag _texParamDirty and the scene's render request
Untouched(p) ==
  [Object(p) EXCEPT !.colorData = None, !.transformAData = None, !.transformBData = None,
                    !.positions = None, !.splatSetFlags = None, !.validCount = 0,
                    !.pendingUpdates = {}, !.splatColor = None, !.transformA = None,
                    !.transformB = None, !.splatOrder = None, !.centersSent = FALSE,
                    !.dirty = FALSE, !.texParamDirty = FALSE, !.renderRequested = FALSE]

\* setSplatData(index, record) returned without throwing; what it did to the
\* buffers, the flags and the pending set
SetSplatDataDone == PrimSetSplatData /\ ~Thrown(prim')
SlotWritten ==
  With(prim'.call.index, LAMBDA index :
    /\ \A name \in SlotBuffers : SameButAt(prim, prim', name, index)
    /\ prim'.orderData = prim.orderData
    /\ prim'.totalCount = prim.totalCount /\ prim'.size = prim.size
    /\ prim'.splatSetFlags = Some(Put(prim.splatSetFlags[1], index, TRUE))
    /\ prim'.validCount
         = prim.validCount + (IF Get(prim.splatSetFlags[1], index) THEN 0 ELSE 1)
    /\ \/ prim'.pendingUpdates = prim.pendingUpdates \cup {index}
       \/ /\ prim'.pendingUpdates = {}                  \* the auto-flush
          /\ Cardinality(prim.pendingUpdates \cup {index}) >= prim.autoFlushThreshold
    /\ prim'.pendingUpdates # {} =>
         \A name \in PackedTextures : prim'[name] = prim[name])

C36_PendingSlotsValid ==
  \A index \in prim.pendingUpdates :
    /\ index < prim.totalCount
    /\ prim.splatSetFlags # None
    /\ Get(prim.splatSetFlags[1], index) = TRUE

\* the entries of the order buffer that are drawn
DrawnEntries(p) == [k \in 1..TexParamsUniform(p) |-> Get(p.orderData[1], k - 1)]

\* C37: with the slots streamed in index order, once a reply has been
\* handled the drawn entries of the order buffer (its first texParams[0]
\* entries) are pairwise distinct indices of valid slots.
C37_DrawnEntriesDistinctValid ==
  (prim.workerHasReturned /\ prim.orderData # None /\ prim.splatSetFlags # None) =>
    With(DrawnEntries(prim), LAMBDA drawn :
      /\ \A k \in 1..Len(drawn) : Get(prim.splatSetFlags[1], drawn[k]) = TRUE
      /\ \A j, k \in 1..Len(drawn) : j # k => drawn[j] # drawn[k])

(***************************************************************************)
(* Sort worker properties.                                                 *)
(***************************************************************************)
\* the quantised forward distance of centre i (0-based) of the sorted set,
\* from the definition: bounds of the set, the 8 corners, the bucket
SortedQuantised(i) ==
  With(CornerDists(BoundMin(wk.sortedCenters), BoundMax(wk.sortedCenters),
                   wk.lastCameraPosition, wk.lastCameraDirection), LAMBDA corners :
    QuantisedDistance(ForwardDist(wk.sortedCenters[i + 1], wk.lastCameraPosition,
                                  wk.lastCameraDirection),
                      MinOf(corners), MaxOf(corners) - MinOf(corners)))

\* C7: every reply's order[0..n) is a permutation of 0..n-1 along which the
\* quantised camera-forward distance never increases (farthest first).
C7_SortedBackToFront ==
  \A r \in 1..Len(wk.outbox) :
    LET order == wk.outbox[r].order
        n == Len(wk.sortedCenters)
    IN  /\ \A j \in 0..(n - 1) : j \in DOMAIN order
        /\ {order[j] : j \in 0..(n - 1)} = 0..(n - 1)
        /\ \A j \in 0..(n - 2) : SortedQuantised(order[j]) >= SortedQuantised(order[j + 1])

\* three centres at three different distances, replied in an order that is
\* neither the index order nor its reverse
C7_Witness ==
  /\ Len(wk.outbox) = 1
  /\ wk.sortedCenters = <<(<<0, 0, 0>>), (<<2, 1, 0>>), (<<-1, 0, 0>>)>>
  /\ wk.lastCameraDirection = <<1, 0, 0>>
  /\ [j \in 0..2 |-> wk.outbox[1].order[j]] = [j \in 0..2 |-> <<1, 0, 2>>[j + 1]]

\* C27: in every reply, of two points in the same distance bucket the one
\* with the smaller index comes earlier in the order.
C27_ScatterStable ==
  \A r \in 1..Len(wk.outbox) :
    LET order == wk.outbox[r].order
        n == Len(wk.sortedCenters)
    IN  \A a, b \in 0..(n - 1) :
          (a < b /\ SortedQuantised(a) = SortedQuantised(b)) =>
            \A ja, jb \in (0..(n - 1)) \cap DOMAIN order :
              (order[ja] = a /\ order[jb] = b) => ja < jb

\* C8: the count of every reply is the number of centres whose forward
\* distance is >= 0.
C8_CountIsFrontCount ==
  \A r \in 1..Len(wk.outbox) :
    wk.outbox[r].count =
      Cardinality({i \in 1..Len(wk.sortedCenters) :
                     ForwardDist(wk.sortedCenters[i], wk.lastCameraPosition,
                                 wk.lastCameraDirection) >= 0})

(***************************************************************************)
(* Decoder properties.                                                     *)
(***************************************************************************)
\* all scheduled continuations run
RECURSIVE Drain(_)
Drain(state) ==
  With(state, LAMBDA d : IF d.timers = 0 THEN d ELSE Drain(TimerFire(d)))

\* the decoder after the first n bytes of the stream arrived as one chunk
OneChunk(n) == Drain(PlyProcessChunk(DecInit(BatchSize), SubSeq(Body, 1, n)))


\* C1: chunk-split invariance.  Whenever no continuation is pending, the
\* header handed to the header callback and the sequence of (record, index)
\* callbacks are those the decoder produces when the bytes received so far
\* arrive as one single chunk, however the stream was cut into chunks.
C1_SplitInvariance ==
  (dec.timers = 0 /\ dec.receivedLength > 0) =>
    LET ref == OneChunk(dec.receivedLength)
    IN  /\ dec.header = ref.header
        /\ dec.headerCalls = ref.headerCalls
        /\ dec.splatCalls = ref.splatCalls

\* the stream of three records was cut after byte 7 of the record data (inside
\* the first record) and has been decoded to the end
C1_Witness ==
  /\ payload = "xyz"
  /\ dec.pc = "complete"
  /\ dec.timers = 0
  /\ dec.headerLength = 122
  /\ Len(dec.headerCalls) = 1
  /\ [k \in 1..Len(dec.splatCalls) |-> <<dec.splatCalls[k][1].position, dec.splatCalls[k][2]>>]
       = << <<<<F32.v1, F32.v2, F32.v3_5>>, 0>>,
            <<<<F32.v4, F32.v5, F32.v6>>, 1>>,
            <<<<F32.v7, F32.v8, F32.v9>>, 2>> >>

\* C9: a header declaring a face element with a count above zero is rejected:
\* the header callback is not invoked and no record is emitted.
C9_MeshRejected ==
  (dec.header # None /\ JsLess(0, dec.header[1].faceCount)) =>
    (dec.headerCalls = << >> /\ dec.splatCalls = << >>)

\* C10: when the vertex element lacks x, y or z, no record is emitted and the
\* load promise is never resolved.
C10_MissingXYZRejected ==
  (dec.header # None
     /\ ~(has(dec.properties, Names.x) /\ has(dec.properties, Names.y) /\ has(dec.properties, Names.z))) =>
    (dec.splatCalls = << >> /\ dec.promise # "resolved")

\* C11: a stream whose format token is neither binary_little_endian nor
\* ascii (the stream bigEndian declares binary_big_endian): the header
\* callback is never invoked, initCount is never called, no record is
\* emitted, the load never resolves or completes, and once the whole header
\* has been received the load has failed: onError was invoked once and the
\* promise is rejected.
C11_UnsupportedFormatFails ==
  payload = "bigEndian" =>
    /\ dec.headerCalls = << >>
    /\ dec.initCalls = << >>
    /\ dec.splatCalls = << >>
    /\ dec.timers = 0
    /\ dec.onCompleteCalls = 0
    /\ dec.promise # "resolved"
    /\ (dec.receivedLength >= IndexOf(TextDecode(Body), Text.end_header) + Len(Text.end_header)
          => /\ dec.pc = "failed"
             /\ dec.thrown = "UnsupportedFormat"
             /\ dec.onErrorCalls = 1
             /\ dec.promise = "rejected")

\* the big-endian stream failed on the chunk that completed its header,
\* before its record bytes were read
C11_Witness ==
  /\ payload = "bigEndian"
  /\ dec.pc = "failed"
  /\ dec.thrown = "UnsupportedFormat"
  /\ dec.onErrorCalls = 1
  /\ dec.promise = "rejected"
  /\ dec.receivedLength < Len(Body)
  /\ dec.headerCalls = << >>

\* C12: once the parser's cancellation flag is set, no step (a chunk handed
\* to processChunk, a timer continuation, the end of the stream, a further
\* cancel) invokes the header callback, initCount or a record callback, and
\* the header bytes buffered, the data bytes buffered and the number of
\* records processed stay as they are; the flag stays set, and cancelling a
\* second time gives the state that cancelling once gives.
C12_CancelStopsDecoder ==
  /\ [][dec.cancelled =>
          /\ dec'.cancelled
          /\ dec'.headerCalls = dec.headerCalls
          /\ dec'.initCalls = dec.initCalls
          /\ dec'.splatCalls = dec.splatCalls
          /\ dec'.header = dec.header
          /\ dec'.headerParsed = dec.headerParsed
          /\ dec'.headerLength = dec.headerLength
          /\ dec'.headerBuffer = dec.headerBuffer
          /\ dec'.dataOffset = dec.dataOffset
          /\ dec'.dataBuffer = dec.dataBuffer
          /\ dec'.processedVertices = dec.processedVertices
          /\ dec'.timers <= dec.timers]_vars
  /\ [](/\ PlyCancel(PlyCancel(dec)) = PlyCancel(dec)
        /\ SgsCancel(SgsCancel(dec)) = SgsCancel(dec)
        /\ dec.cancelled =>
             \A n \in PieceLengths : PlyProcessChunk(dec, SubSeq(Body, 1, n)) = dec)

\* the three-record stream was cancelled after two records, with the third
\* record buffered and a continuation scheduled; the continuation has run
\* and the rest of the stream has been read, and the third record was not
\* emitted
C12_Witness ==
  /\ payload = "xyz"
  /\ dec.cancelled
  /\ dec.timers = 0
  /\ dec.receivedLength = Len(Body)
  /\ dec.dataOffset = 3 * dec.vertexStride
  /\ dec.processedVertices = 2
  /\ Len(dec.splatCalls) = 2
  /\ dec.pc # "reading"

\* C13: after a cancellation of the load of the well-formed stream xyz,
\* through the parser's cancel() or through the cancel function of
\* loadStream, no step other than a failing read invokes onError or rejects
\* the load promise.
C13_CancelIsSilent ==
  [][(payload = "xyz" /\ (dec.sgsCancelled \/ dec.aborted) /\ ~ReadFail)
       => /\ dec'.onErrorCalls = dec.onErrorCalls
          /\ (dec'.promise = "rejected" => dec.promise = "rejected")]_vars

\* C20: a read that fails while neither the loader nor the parser has been
\* cancelled invokes onError once and rejects the load promise unless it has
\* resolved, does not invoke onComplete, makes no call on the primitive and
\* changes nothing in it; a failed load has invoked onError exactly once and
\* onComplete never.
C20_ReadFailureReported ==
  /\ [][(ReadFail /\ ~dec.aborted /\ ~dec.sgsCancelled)
          => /\ dec'.pc = "failed"
             /\ dec'.onErrorCalls = dec.onErrorCalls + 1
             /\ dec'.promise = (IF dec.promise = "pending" THEN "rejected" ELSE dec.promise)
             /\ dec'.onCompleteCalls = dec.onCompleteCalls
             /\ dec'.headerCalls = dec.headerCalls
             /\ dec'.initCalls = dec.initCalls
             /\ dec'.splatCalls = dec.splatCalls
             /\ prim' = prim]_vars
  /\ [](dec.pc = "failed" => (dec.onErrorCalls = 1 /\ dec.onCompleteCalls = 0))

\* a read failed after the load had resolved and a record had been handed to
\* the primitive
C20_Witness ==
  /\ dec.pc = "failed"
  /\ dec.thrown = "ReadError"
  /\ ~dec.sgsCancelled
  /\ dec.promise = "resolved"
  /\ dec.onErrorCalls = 1
  /\ dec.onCompleteCalls = 0
  /\ Len(dec.splatCalls) >= 1

\* f_dc_0, f_dc_1, f_dc_2 of the record with the given index, read from the
\* buffered record bytes
DcTerms(d, index) ==
  [k \in 1..3 |->
     ReadProp(d, index * d.vertexStride,
              propIndex(d.properties, <<Names.f_dc_0, Names.f_dc_1, Names.f_dc_2>>[k]))]

\* C28: whenever the header declares f_dc_0, f_dc_1, f_dc_2, with or without
\* f_rest_* properties, the first three values of each decoded record's
\* spherical-harmonics array are its three DC terms, and the colour the packer
\* computes from coeffs[0..2] is the colour of the DC terms.
C28_DcTermsFirst ==
  \A i \in 1..Len(dec.splatCalls) :
    With(dec.splatCalls[i], LAMBDA call :
      call[1].sh # None =>
        /\ SubSeq(call[1].sh[1].coeffs, 1, 3) = DcTerms(dec, call[2])
        /\ ColorOf(call[1])
             = ColorOf([call[1] EXCEPT
                          !.sh = Some([order |-> 0, coeffs |-> DcTerms(dec, call[2])])]))

\* the number of bytes of the stream up to the end of 'end_header\n'
HeaderBytes == IndexOf(Body, Text.end_header) + Len(Text.end_header)

\* the record bytes delivered so far
DataReceived == Max(0, dec.receivedLength - HeaderBytes)

\* x, y, z of the record with the given index, read from the stream
StreamPosition(index) ==
  [k \in 1..3 |-> readByType(Body, HeaderBytes + 12 * index + 4 * (k - 1), Types.float)]

\* C29: under every interleaving of chunk arrivals and timer continuations the
\* records are emitted with the indices 0, 1, 2, ... in this order, each once,
\* and an emitted record is never taken back; a record is emitted only when
\* all of its bytes have been received (records processed * stride <= record
\* bytes received), so a trailing partial record is not decoded and an emitted
\* record holds the bytes of the stream; the number of emitted records never
\* exceeds the declared vertex count, also when more bytes follow.
C29_RecordsInOrder ==
  /\ [](dec.header # None =>
         /\ \A i \in 1..Len(dec.splatCalls) :
              /\ dec.splatCalls[i][2] = i - 1
              /\ dec.splatCalls[i][1].position = StreamPosition(i - 1)
         /\ Len(dec.splatCalls) = dec.processedVertices
         /\ dec.processedVertices * dec.vertexStride <= DataReceived
         /\ Len(dec.splatCalls) <= dec.header[1].vertexCount)
  /\ [](dec.header = None => dec.splatCalls = << >>)
  /\ [][/\ Len(dec'.splatCalls) >= Len(dec.splatCalls)
        /\ SubSeq(dec'.splatCalls, 1, Len(dec.splatCalls)) = dec.splatCalls]_vars

\* the stream with a third record after the two declared ones has been
\* delivered to the end, the continuation has run, and two records were emitted
C29_Witness ==
  /\ payload = "extra"
  /\ dec.pc = "complete"
  /\ dec.timers = 0
  /\ dec.dataOffset = 36
  /\ Len(dec.splatCalls) = 2

\* the decoder's state, from the fields of PlyStreamParser
DecoderState(d) ==
  IF d.cancelled THEN "Cancelled"
  ELSE IF ~d.headerParsed THEN "AwaitingHeader"
  ELSE IF d.processedVertices = d.header[1].vertexCount THEN "Done"
  ELSE "ParsingRecords"

\* the header and all vertexCount * stride record bytes have been delivered
AllDelivered(d) ==
  /\ d.headerParsed
  /\ d.header[1].vertexCount # NaN
  /\ d.dataOffset >= d.header[1].vertexCount * d.vertexStride

\* an exception was thrown: the load has failed, or a continuation threw
Errored(d) == d.pc = "failed" \/ d.uncaught > 0

\* the changes of state that go forward
Forward ==
  {<<"AwaitingHeader", "ParsingRecords">>, <<"AwaitingHeader", "Done">>,
   <<"AwaitingHeader", "Cancelled">>, <<"ParsingRecords", "Done">>,
   <<"ParsingRecords", "Cancelled">>, <<"Done", "Cancelled">>}

\* C30: when continuations that are due are eventually run, a decoder that is
\* not cancelled, has seen no error and has received the header and all
\* vertexCount * stride record bytes eventually is Done (records processed =
\* vertexCount) unless it is cancelled or an error occurs first; and the
\* decoder's state only moves forward, from AwaitingHeader to ParsingRecords
\* to Done or Cancelled, the number of processed records never decreasing.
C30_DecoderProgress ==
  /\ (AllDelivered(dec) /\ ~dec.cancelled /\ ~Errored(dec))
       ~> (DecoderState(dec) = "Done" \/ dec.cancelled \/ Errored(dec))
  /\ [][/\ \/ DecoderState(dec') = DecoderState(dec)
           \/ <<DecoderState(dec), DecoderState(dec')>> \in Forward
        /\ dec'.processedVertices >= dec.processedVertices]_vars

\* the stream of three records arrived in one chunk, which left the third
\* record to the continuation scheduled after the second; the continuation has
\* run and the decoder is Done
C30_Witness ==
  /\ payload = "xyz"
  /\ dec.headerLength = Len(Body)
  /\ dec.timers = 0
  /\ ~Errored(dec)
  /\ DecoderState(dec) = "Done"
  /\ Len(dec.splatCalls) = 3

\* the valid slots in index order, and the centre of a slot as a number
ValidSlots(p) ==
  SelectSeq([k \in 1..p.totalCount |-> k - 1], LAMBDA i : Get(p.splatSetFlags[1], i))

SlotCenter(p, i) == [a \in 1..3 |-> F32Int(Get(p.positions[1], i)[a])]

\* C40: for every set of valid slots, each centres message posted by a frame
\* holds exactly one centre per valid slot and nothing else, and the index
\* the worker gives a centre (its place in the message) is the index of its
\* slot; after a reply the drawn entries of the order buffer are valid slots.
C40_CentresOfValidSlots ==
  /\ (prim.call.op = "update" /\ prim.splatSetFlags # None /\ prim.positions # None) =>
        \A k \in 1..Len(prim.posted) :
          prim.posted[k].centers # None =>
            With(prim.posted[k].centers[1], LAMBDA centers :
              /\ Len(centers) = Len(ValidSlots(prim))
              /\ \A c \in 1..Len(centers) :
                   /\ ValidSlots(prim)[c] = c - 1
                   /\ centers[c] = SlotCenter(prim, c - 1))
  /\ (prim.call.op = "onmessage" /\ prim.workerHasReturned /\ prim.splatSetFlags # None
        /\ prim.orderData # None) =>
        \A k \in 1..TexParamsUniform(prim) :
          Get(prim.splatSetFlags[1], Get(prim.orderData[1], k - 1)) = TRUE

\* update() was called and its test for _scheduleOrder passed
DispatchAttempted ==
  /\ env'.ticks # env.ticks
  /\ prim.show /\ ~IsDestroyed(prim)
  /\ DispatchDue(prim)

\* C38: when onComplete is invoked for a stream that was delivered in full
\* and not cancelled, every record has been emitted (records processed =
\* vertexCount), and no record is emitted after onComplete.
C38_CompleteAfterAllRecords ==
  /\ []((dec.onCompleteCalls > 0 /\ AllDelivered(dec) /\ ~dec.cancelled /\ ~dec.aborted)
         => dec.processedVertices = dec.header[1].vertexCount)
  /\ [][(dec.onCompleteCalls > 0 /\ ~dec.cancelled /\ ~dec.aborted)
          => dec'.splatCalls = dec.splatCalls]_vars

\* C39: for every flushFrameLimit >= 1, when update() is called frame after
\* frame without end with the primitive shown and validCount > 0 from some
\* frame on, _scheduleOrder is attempted infinitely often.
C39_DispatchInfinitelyOften ==
  <>[](prim.show /\ ~IsDestroyed(prim) /\ prim.validCount > 0)
    => []<><<DispatchAttempted>>_vars

(***************************************************************************)
(* GSplatStreamPrimitive properties.                                        *)
(***************************************************************************)
\* C2: a setSplatData call whose index is below 0 or not below totalCount
\* (every index while the primitive is uninitialised, totalCount being 0)
\* throws, and no field of the object changes: the packed buffers, the
\* positions, the flags, validCount, the pending set and the local bounding
\* box among them.
C2_OutOfRangeRejected ==
  [][(PrimSetSplatData
        /\ (prim'.call.index < 0 \/ prim'.call.index >= prim.totalCount))
       => (Thrown(prim') /\ Object(prim') = Object(prim))]_vars

\* a rejected write at index 256 of a primitive of capacity 256 that holds a
\* valid splat
C2_Witness ==
  /\ prim.call = [op |-> "setSplatData", index |-> 256, thrown |-> "DeveloperError"]
  /\ prim.totalCount = 256
  /\ prim.validCount >= 1
  /\ prim.pendingUpdates # {}

\* C3: validCount does not decrease in any step other than a call of
\* initCount: not in setSplatData, flushUpdates, update, the handling of a
\* worker reply, a step of the worker, nor destroy.
C3_ValidCountMonotone ==
  [][(~PrimInitCount) => prim'.validCount >= prim.validCount]_vars

\* a worker reply handled by a primitive that holds a valid splat
C3_Witness ==
  /\ prim.call.op = "onmessage"
  /\ prim.workerHasReturned
  /\ prim.validCount >= 1

\* C4: while the flags exist validCount is the number of true flags and lies
\* in 0 .. totalCount, and a setSplatData call on an index whose flag is true
\* leaves validCount as it is.
C4_ValidCountIsFlagCount ==
  /\ [](prim.splatSetFlags # None =>
          /\ prim.validCount =
               Cardinality({i \in 0..(prim.splatSetFlags[1].length - 1) :
                              Get(prim.splatSetFlags[1], i)})
          /\ prim.validCount >= 0
          /\ prim.validCount <= prim.totalCount)
  /\ [][(/\ PrimSetSplatData
         /\ prim.splatSetFlags # None
         /\ InArray(prim.splatSetFlags[1], prim'.call.index)
         /\ Get(prim.splatSetFlags[1], prim'.call.index))
        => (~Thrown(prim') /\ prim'.validCount = prim.validCount)]_vars

\* one valid splat that was written twice, at two positions
C4_Witness ==
  /\ prim.call.op = "setSplatData"
  /\ ~Thrown(prim)
  /\ prim.validCount = 1
  /\ prim.pendingUpdates = {prim.call.index}
  /\ prim.localBoundBox.min # prim.localBoundBox.max

\* C5: a flushUpdates call made while the pending set is empty uploads
\* nothing, posts nothing and changes no field of the object (centersSent,
\* the dirty flag and the scene's render request among them).
C5_EmptyFlushIsNoOp ==
  [][(PrimFlushUpdates /\ prim.pendingUpdates = {})
       => /\ prim'.transfers = << >>
          /\ prim'.posted = << >>
          /\ Object(prim') = Object(prim)]_vars

\* a flushUpdates call that returned early: the textures exist, a splat is
\* valid, and the dirty flag a flush would have set is still false
C5_Witness ==
  /\ prim.call = [op |-> "flushUpdates", index |-> 0, thrown |-> "none"]
  /\ prim.pendingUpdates = {}
  /\ prim.transfers = << >>
  /\ prim.validCount >= 1
  /\ prim.splatColor # None
  /\ ~prim.dirty

\* C6: capacity 256 (a 64 x 4 grid), the four textures created with the size
\* of the grid, one successful setSplatData call and then flushUpdates: the
\* flush issues on each of the four textures one upload of the 1 x 1
\* rectangle at row floor(index / 64), column index mod 64, and nothing else.
C6_SingleWritePartialUpload ==
  [][(/\ PrimFlushUpdates
      /\ prim.totalCount = 256
      /\ \A name \in {"splatColor", "transformA", "transformB", "splatOrder"} :
           /\ prim[name] # None
           /\ prim[name][1].width = 64
           /\ prim[name][1].height = 4
      /\ prim.call.op = "setSplatData"
      /\ ~Thrown(prim)
      /\ prim.pendingUpdates = {prim.call.index})
     => /\ ~Thrown(prim')
        /\ prim'.transfers =
             [k \in 1..4 |->
                Transfer(<<"splatColor", "transformA", "transformB", "splatOrder">>[k],
                         "copy", prim.call.index % 64, prim.call.index \div 64, 1, 1)]]_vars

\* the flush after a write at index 65: four uploads of 1 x 1 at row 1,
\* column 1
C6_Witness ==
  /\ prim.call.op = "flushUpdates"
  /\ prim.totalCount = 256
  /\ prim.transfers =
       <<Transfer("splatColor", "copy", 1, 1, 1, 1), Transfer("transformA", "copy", 1, 1, 1, 1),
         Transfer("transformB", "copy", 1, 1, 1, 1), Transfer("splatOrder", "copy", 1, 1, 1, 1)>>

====
